---- MODULE Spec2Model ----
(***************************************************************************)
(* The SkSL rehydrator (src/sksl/SkSLRehydrator.cpp): a recursive-descent  *)
(* decoder of a dehydrated module.  The decoder is modelled as a stack     *)
(* machine: every C++ call is a frame of `stack`, and one step of the      *)
(* model runs a function from one read of the byte stream to the next read *)
(* or call.  A byte of the input buffer is chosen when it is first read    *)
(* and then kept in `src`, so a second session over the same buffer reads  *)
(* the same bytes.                                                         *)
(***************************************************************************)
EXTENDS Integers, Sequences, FiniteSets, TLC

\* ------------------------------------------------------------------ bounds
\* length of the longest input buffer
MaxLen == 42
\* bytes a release build may read beyond the end of the buffer
MaxOverrun == 1
\* largest string_blob_length of a header
MaxBlob == 1
\* symbols, scopes and tree nodes one session may create
MaxSyms == 2
MaxTables == 2
MaxNodes == 3
\* largest count field (owned, visible, statements, arguments, fields, cases)
MaxCount == 1
MaxVisible == 2
\* failed SkASSERTs a release build runs past in one session
MaxIgnored == 1
\* largest session-local symbol id on the wire
MaxId == 1
\* decode sessions run over the same buffer
MaxSessions == 2

\* ------------------------------------------------------- command tags
\* Rehydrator::Command (one tag space for all decoders)
kArrayType_Command == 0
kBinary_Command == 1
kBlock_Command == 2
kBoolLiteral_Command == 3
kBreak_Command == 4
kBuiltinLayout_Command == 5
kConstructorArray_Command == 6
kConstructorArrayCast_Command == 7
kConstructorCompound_Command == 8
kConstructorCompoundCast_Command == 9
kConstructorDiagonalMatrix_Command == 10
kConstructorMatrixResize_Command == 11
kConstructorScalarCast_Command == 12
kConstructorSplat_Command == 13
kConstructorStruct_Command == 14
kContinue_Command == 15
kDefaultLayout_Command == 16
kDefaultModifiers_Command == 17
kDiscard_Command == 18
kDo_Command == 19
kElements_Command == 20
kElementsComplete_Command == 21
kExpressionStatement_Command == 22
kField_Command == 23
kFieldAccess_Command == 24
kFloatLiteral_Command == 25
kFor_Command == 26
kFunctionCall_Command == 27
kFunctionDeclaration_Command == 28
kFunctionDefinition_Command == 29
kFunctionPrototype_Command == 30
kGlobalVar_Command == 31
kIf_Command == 32
kIndex_Command == 33
kInterfaceBlock_Command == 35
kIntLiteral_Command == 36
kLayout_Command == 37
kModifiers8Bit_Command == 38
kModifiers_Command == 39
kNop_Command == 40
kPostfix_Command == 41
kPrefix_Command == 42
kProgram_Command == 43
kReturn_Command == 44
kSetting_Command == 45
kSharedFunction_Command == 46
kStructDefinition_Command == 47
kStructType_Command == 48
kSwitch_Command == 49
kSwizzle_Command == 50
kSymbolRef_Command == 51
kSymbolTable_Command == 52
kTernary_Command == 53
kVariable_Command == 55
kVarDeclaration_Command == 56
kVariableReference_Command == 57
kVoid_Command == 58
\* the reference token that announces a builtin name
kBuiltin_Symbol == 65535
\* the format version this decoder reads
kVersion == 11

\* a tag no decoder recognises: every switch sends it to its default branch
BadTag == kVoid_Command + 1

\* ------------------------------------------------------------- state
VARIABLES
    SK_DEBUG,        \* the build: TRUE when SK_DEBUG is defined (SkASSERT is checked)
    family,          \* the family of input streams the buffer is drawn from
    src,             \* the input buffer, offset -> byte; Unread until first read
    fEnd,            \* its length (src + length); Open until the session meets it
    fIP,             \* the read cursor, an offset into src
    fStringStart,    \* offset of the string blob
    fSymbolTable,    \* the current scope (a handle into tables, or Null)
    fSymbols,        \* the session's id table: wire id -> symbol handle or Null
    tables,          \* every SymbolTable object, by handle
    syms,            \* every Symbol object, by handle
    nodes,           \* every statement, expression and program element, by handle
    stack,           \* the C++ call stack of the session
    ret,             \* the value the last returning call returned
    status,          \* new, idle, running, aborted, crashed, destroyed
    fConfig,         \* context().fConfig
    fModifiersPool,  \* context().fModifiersPool
    programs,        \* the Programs returned so far, one per program() call
    session,         \* how many Rehydrators have been constructed over src
    mark,            \* the sizes of tables, syms and nodes when the session began
    log,             \* the session's registrations and resolutions of ids, in order
    ignored          \* the failed checks a release build has run past, in order

reader == <<src, fEnd, fIP>>
body == <<fStringStart, fSymbolTable, fSymbols, tables, syms, nodes, stack, ret,
          fConfig, fModifiersPool, programs, log, ignored>>
fixed == <<SK_DEBUG, family, session, mark>>
vars == <<reader, body, fixed, status>>

Null == 0
Unread == 0 - 1
Open == 0 - 1

\* ------------------------------------------------------ the compiler's world
\* names are handles of strings of the string blob
nInt == 1
nUint == 2
nFragCoord == 3
nSin == 4
nLocal == 5
Names == {nInt, nUint, nFragCoord, nSin, nLocal}

Sym(kind, name, uns, builtin, owner, n) ==
    [kind |-> kind, name |-> name, isUnsigned |-> uns, isBuiltin |-> builtin,
     owner |-> owner, n |-> n, definition |-> Null]

\* the symbols of the builtin root: int, uint, one variable and one function
BuiltinSyms ==
    << Sym("Type", nInt, FALSE, TRUE, Null, 0),
       Sym("Type", nUint, TRUE, TRUE, Null, 0),
       Sym("Variable", nFragCoord, FALSE, TRUE, 1, 0),
       Sym("FunctionDeclaration", nSin, FALSE, TRUE, 1, 0) >>

\* table 1: the root module; table 2: the module of a program kind, its child
BuiltinTables ==
    << [fParent |-> Null, fBuiltin |-> TRUE, fOwned |-> <<1, 2, 3, 4>>,
        fSymbols |-> <<1, 2, 3, 4>>],
       [fParent |-> 1, fBuiltin |-> TRUE, fOwned |-> <<>>, fSymbols |-> <<>>] >>

\* program kinds the compiler has a module for
Kinds == {0, 1}
\* Compiler::moduleForProgramKind(kind).fSymbols
moduleForProgramKind(kind) == IF kind = 0 THEN 2 ELSE 1
\* Compiler::makeRootSymbolTableWithPublicTypes()
makeRootSymbolTableWithPublicTypes == 2

\* the ambient configuration and modifiers pool of the compiler before any session
Config0 == 100
Pool0 == 200

\* a variant of the walk that stops at the scope it starts from
Innermost(t) == t

\* the outermost ancestor of scope t
RECURSIVE Root(_)
Root(t) == IF tables[t].fParent = Null THEN t ELSE Root(tables[t].fParent)

\* SymbolTable::operator[]: the symbol bound to name in t or, failing that, in its
\* ancestors; Null when there is none
RECURSIVE Lookup(_, _)
Lookup(t, name) ==
    LET hits == {k \in DOMAIN tables[t].fSymbols : syms[tables[t].fSymbols[k]].name = name}
    IN  IF hits # {} THEN tables[t].fSymbols[CHOOSE k \in hits : \A j \in hits : j <= k]
        ELSE IF tables[t].fParent = Null THEN Null
        ELSE Lookup(tables[t].fParent, name)

\* ------------------------------------------------------ input domains
\* The streams explored come in families.  A family names the tags its streams
\* use, the names they mention, the program kinds, flag values, counts, indices
\* and 32-bit values they carry, and whether they may be damaged: cut short, or
\* carrying a wrong version or a string blob.
CommonTags == {kProgram_Command, kElements_Command, kElementsComplete_Command, kVoid_Command,
               kSymbolTable_Command, kDefaultModifiers_Command}
ExpressionTags ==
    {kBinary_Command, kBoolLiteral_Command, kFieldAccess_Command, kFloatLiteral_Command,
     kFunctionCall_Command, kIndex_Command, kIntLiteral_Command, kPostfix_Command,
     kPrefix_Command, kSetting_Command, kSwizzle_Command, kTernary_Command,
     kVariableReference_Command, kConstructorArray_Command, kConstructorArrayCast_Command,
     kConstructorCompound_Command, kConstructorCompoundCast_Command,
     kConstructorDiagonalMatrix_Command, kConstructorMatrixResize_Command,
     kConstructorScalarCast_Command, kConstructorSplat_Command, kConstructorStruct_Command}
Family(tags, len, names, kinds, flags, owned, visible, indices, words, damaged) ==
    [tags |-> tags, len |-> len, names |-> names, kinds |-> kinds, flags |-> flags,
     owned |-> owned, visible |-> visible, indices |-> indices, words |-> words,
     damaged |-> damaged]
Families ==
    << \* 1: blocks
       Family(CommonTags \cup {kGlobalVar_Command, kBlock_Command, kNop_Command},
              MaxLen - 16, {}, {0}, {0}, {0}, {0}, {}, {0}, FALSE),
       \* 2: loops
       Family(CommonTags \cup {kGlobalVar_Command, kFor_Command},
              MaxLen - 16, {}, {0}, {0}, {0}, {0}, {}, {0}, FALSE),
       \* 3: switches
       Family(CommonTags \cup {kGlobalVar_Command, kSwitch_Command},
              MaxLen - 16, {}, {0}, {0}, {0}, {0}, {}, {0}, FALSE),
       \* 4: struct types and scopes
       Family(CommonTags \cup {kStructDefinition_Command, kStructType_Command, kSymbolRef_Command},
              MaxLen - 13, {nInt, nLocal}, {0}, {0}, 0..MaxCount, 0..MaxCount, (0..MaxCount) \cup
              {kBuiltin_Symbol}, {0}, FALSE),
       \* 5: variables, fields and array types
       Family(CommonTags \cup {kInterfaceBlock_Command, kVariable_Command, kSymbolRef_Command,
              kField_Command, kArrayType_Command},
              MaxLen - 11, {nInt}, {0}, {0}, 0..MaxCount, {0}, {}, {0}, FALSE),
       \* 6: function declarations and definitions
       Family(CommonTags \cup {kFunctionDefinition_Command, kFunctionPrototype_Command,
              kFunctionDeclaration_Command, kSymbolRef_Command},
              MaxLen - 10, {nInt}, {0}, {0}, 0..MaxCount, {0}, {}, {0}, FALSE),
       \* 7: shared functions
       Family((CommonTags \ {kSymbolTable_Command}) \cup {kSharedFunction_Command,
              kFunctionDefinition_Command, kFunctionDeclaration_Command,
              kVariable_Command, kSymbolRef_Command},
              MaxLen - 8, {nInt}, {0}, {0}, {0}, {0}, {}, {0}, FALSE),
       \* 8: literals
       Family((CommonTags \ {kSymbolTable_Command}) \cup {kGlobalVar_Command,
              kExpressionStatement_Command, kSymbolRef_Command,
              kBoolLiteral_Command, kIntLiteral_Command, kFloatLiteral_Command,
              kSetting_Command},
              MaxLen - 12, {nInt, nUint}, {0}, {0}, {0}, {0}, {}, {0, 0 - 1}, FALSE),
       \* 9: operators on one or two operands
       Family((CommonTags \ {kSymbolTable_Command}) \cup {kGlobalVar_Command,
              kExpressionStatement_Command, kBinary_Command, kPrefix_Command,
              kPostfix_Command, kIndex_Command},
              MaxLen - 24, {}, {0}, {0}, {0}, {0}, {}, {0}, FALSE),
       \* 10: ternaries, field accesses and swizzles
       Family((CommonTags \ {kSymbolTable_Command}) \cup {kGlobalVar_Command,
              kExpressionStatement_Command, kTernary_Command, kFieldAccess_Command,
              kSwizzle_Command},
              MaxLen - 24, {}, {0}, {0}, {0}, {0}, {}, {0}, FALSE),
       \* 11: constructors
       Family((CommonTags \ {kSymbolTable_Command}) \cup {kGlobalVar_Command,
              kExpressionStatement_Command, kSymbolRef_Command,
              kBoolLiteral_Command, kConstructorArray_Command,
              kConstructorArrayCast_Command, kConstructorCompound_Command,
              kConstructorCompoundCast_Command, kConstructorDiagonalMatrix_Command,
              kConstructorMatrixResize_Command, kConstructorScalarCast_Command,
              kConstructorSplat_Command, kConstructorStruct_Command},
              MaxLen - 20, {nInt}, {0}, {0}, {0}, {0}, {}, {0}, FALSE),
       \* 12: references to functions and variables
       Family((CommonTags \ {kSymbolTable_Command}) \cup {kGlobalVar_Command,
              kExpressionStatement_Command, kSymbolRef_Command,
              kFunctionCall_Command, kVariableReference_Command},
              MaxLen - 16, {nInt, nFragCoord, nSin}, {0}, {0}, {0}, {0}, {}, {0}, FALSE),
       \* 13: conditionals and do loops
       Family((CommonTags \ {kSymbolTable_Command}) \cup {kGlobalVar_Command, kIf_Command,
              kDo_Command, kBreak_Command},
              MaxLen - 23, {}, {0}, {0, 1}, {0}, {0}, {}, {0}, FALSE),
       \* 14: jumps
       Family((CommonTags \ {kSymbolTable_Command}) \cup {kGlobalVar_Command, kReturn_Command,
              kContinue_Command, kDiscard_Command},
              MaxLen - 23, {}, {0}, {0}, {0}, {0}, {}, {0}, FALSE),
       \* 15: variable declarations
       Family(CommonTags \cup {kGlobalVar_Command, kVarDeclaration_Command, kVariable_Command,
              kSymbolRef_Command},
              MaxLen, {nInt}, {0}, {0}, 0..MaxCount, {0}, {}, {0}, FALSE),
       \* 16: modifiers and layouts
       Family((CommonTags \ {kSymbolTable_Command}) \cup {kInterfaceBlock_Command,
              kVariable_Command, kSymbolRef_Command, kModifiers8Bit_Command,
              kModifiers_Command, kBuiltinLayout_Command, kDefaultLayout_Command,
              kLayout_Command},
              MaxLen - 6, {nInt}, {0}, {0}, {0}, {0}, {}, {0}, FALSE),
       \* 17: programs of the root module
       Family(CommonTags \cup {kStructDefinition_Command, kStructType_Command},
              MaxLen - 16, {nLocal}, {1}, {0, 1}, {0}, {0}, {}, {0}, FALSE),
       \* 18: damaged streams
       Family(CommonTags \cup {BadTag, kGlobalVar_Command, kNop_Command,
              kStructDefinition_Command, kStructType_Command},
              MaxLen - 22, {nInt}, {0}, {0}, 0..MaxCount, {0}, {}, {0}, TRUE),
       \* 19: visible lists
       Family(CommonTags \cup {kStructType_Command},
              MaxLen - 11, {nInt}, {0}, {0}, 0..MaxCount, 0..MaxVisible, {0, kBuiltin_Symbol},
              {0}, FALSE),
       \* 20: shadowed builtin names
       Family({kProgram_Command, kElements_Command, kElementsComplete_Command,
              kSymbolTable_Command} \cup {kGlobalVar_Command, kBlock_Command,
              kStructType_Command},
              MaxLen - 3, {nInt}, {0}, {0}, 0..MaxCount, 0..MaxCount, {0, kBuiltin_Symbol}, {0},
              FALSE) >>
FamilyIds == DOMAIN Families
Tags == Families[family].tags
Damaged == Families[family].damaged
\* the longest buffer of the family
Length == Families[family].len

\* what an unread byte (or wider field) may hold at each place of the grammar:
\* the tags the decoder there tells apart and one tag it does not know
D_Version == IF Damaged THEN {kVersion, kVersion + 1} ELSE {kVersion}
D_Blob == IF Damaged THEN 0..MaxBlob ELSE {0}
D_Program == {kProgram_Command, BadTag} \cap Tags
D_Kind == Families[family].kinds
D_Scope == {kVoid_Command, kSymbolTable_Command, BadTag} \cap Tags
D_Flag == Families[family].flags
D_Bool == {0, 1}
D_Owned == Families[family].owned
D_Visible == Families[family].visible
D_Count == 0..MaxCount
D_Index == Families[family].indices
D_Ref == (0..MaxId) \cup {kBuiltin_Symbol}
D_Id == 0..MaxId
D_Name == Families[family].names
\* 32-bit wire values, as int32_t: all bits clear and all bits set
D_Word == Families[family].words
D_Elements == {kElements_Command, BadTag} \cap Tags
D_Element == {kFunctionDefinition_Command, kFunctionPrototype_Command, kGlobalVar_Command,
              kInterfaceBlock_Command, kStructDefinition_Command, kSharedFunction_Command,
              kElementsComplete_Command, BadTag} \cap Tags

\* ------------------------------------------------------------- reader
\* byte i of the two's-complement value v
Byte(v, i) == (v \div (256 ^ i)) % 256

LEAt(p, w) ==
    IF w = 1 THEN src[p]
    ELSE IF w = 2 THEN src[p] + 256 * src[p + 1]
    \* four bytes: the 32 bits as an int32_t
    ELSE src[p] + 256 * src[p + 1] + 65536 * src[p + 2]
         + 16777216 * (IF src[p + 3] >= 128 THEN src[p + 3] - 256 ELSE src[p + 3])

Recorded(w) == \A i \in 0..(w - 1) : src[fIP + i] # Unread
Consistent(v, w) == \A i \in 0..(w - 1) : src[fIP + i] \in {Unread, Byte(v, i)}
Written(v, w) ==
    [p \in DOMAIN src |-> IF p \in fIP..(fIP + w - 1) THEN Byte(v, p - fIP) ELSE src[p]]

\* sign extension of a one- or two-byte wire value (readS8, readS16)
Signed(v, w) == IF v >= (256 ^ w) \div 2 THEN v - 256 ^ w ELSE v

\* where the buffer can turn out to end when w bytes are read at the cursor
EndsAt(w) ==
    IF fEnd = Open
    THEN {e \in fIP..(fIP + w - 1) : Damaged /\ (e >= Length \/ src[e] = Unread)}
    ELSE IF fIP + w > fEnd THEN {fEnd} ELSE {}

\* The outcomes of reading w bytes at the cursor as a little-endian value, the
\* unread bytes drawn from dom.  readU8 asserts fIP < fEnd; fEnd exists in a
\* debug build only, so a release build reads whatever follows the buffer, or
\* faults.
Reads(w, dom) ==
    (IF fIP + w <= Length /\ (fEnd = Open \/ fIP + w <= fEnd)
     THEN IF Recorded(w)
          THEN {[k |-> "ok", v |-> LEAt(fIP, w), src |-> src, ip |-> fIP + w, end |-> fEnd]}
          ELSE {[k |-> "ok", v |-> v, src |-> Written(v, w), ip |-> fIP + w, end |-> fEnd] :
                  v \in {x \in dom : Consistent(x, w)}}
     ELSE {})
    \cup
    UNION {IF SK_DEBUG
           THEN {[k |-> "aborted", v |-> 0, src |-> src, end |-> e,
                  ip |-> IF fIP < e THEN e ELSE fIP]}
           ELSE {[k |-> "crashed", v |-> 0, src |-> src, end |-> e, ip |-> fIP]}
                \cup (IF fIP + w <= e + MaxOverrun
                      THEN {[k |-> "ok", v |-> v, src |-> src, ip |-> fIP + w, end |-> e] :
                              v \in dom}
                      ELSE {})
           : e \in EndsAt(w)}

\* ------------------------------------------------------------- frames
\* the frame of a call of fn: its position, its locals and, for the record, the
\* current scope when the call was made (at) and the offset of the command the
\* call decodes (ip, set when its tag is read)
Frame(fn) ==
    [fn |-> fn, pc |-> "start", i |-> 0, n |-> 0, id |-> 0, a |-> 0, b |-> 0,
     list |-> <<>>, old |-> 0, at |-> fSymbolTable, ip |-> Unread]

Top == stack[Len(stack)]
At(fn, pc) == status = "running" /\ stack # <<>> /\ Top.fn = fn /\ Top.pc = pc
\* the stack with its top frame replaced
Set(f) == [stack EXCEPT ![Len(stack)] = f]
Goto(pc) == Set([Top EXCEPT !.pc = pc])
\* the top frame becomes f and fn is called
Call(f, fn) == Append(Set(f), Frame(fn))
Popped == SubSeq(stack, 1, Len(stack) - 1)
StatusOf(stk) == IF stk = <<>> THEN "idle" ELSE "running"

\* the read r went through: the cursor and the buffer after it
Took(r) == fIP' = r.ip /\ src' = r.src /\ fEnd' = r.end

\* the process stops: a failed SkASSERT ("aborted") or a fault ("crashed")
Die(kind) == status' = kind /\ UNCHANGED <<body, fixed>>
Halt(r) == Die(r.k) /\ fIP' = r.ip /\ fEnd' = r.end /\ src' = src

\* the step goes on with this stack and this returned value
Go(stk, rv) ==
    /\ status' = StatusOf(stk)
    /\ stack' = stk
    /\ ret' = rv
    /\ UNCHANGED <<fStringStart, fSymbolTable, fSymbols, tables, syms, nodes,
                   fConfig, fModifiersPool, programs, log, ignored, fixed>>

\* a check that is compiled in a debug build only has failed: the debug build
\* aborts, the release build runs on with the code after it
Failed(what, stk, rv) ==
    IF SK_DEBUG THEN Die("aborted")
    ELSE /\ Len(ignored) < MaxIgnored
         /\ status' = StatusOf(stk)
         /\ stack' = stk
         /\ ret' = rv
         /\ ignored' = Append(ignored, what)
         /\ UNCHANGED <<fStringStart, fSymbolTable, fSymbols, tables, syms, nodes,
                        fConfig, fModifiersPool, programs, log, fixed>>

\* SkASSERT(cond) and the code after it
SkASSERT(cond, stk, rv) == IF cond THEN Go(stk, rv) ELSE Failed("assert", stk, rv)

\* the default branch of the switch of decoder fn: the tag is not one it knows
Unsupported(fn, stk, rv) == Failed(fn, stk, rv)

\* the step changes the scopes, the symbols or the id table
GoHeap(stk, rv, cur, tbl, sy, ids, lg) ==
    /\ status' = StatusOf(stk)
    /\ stack' = stk
    /\ ret' = rv
    /\ fSymbolTable' = cur
    /\ tables' = tbl
    /\ syms' = sy
    /\ fSymbols' = ids
    /\ log' = lg
    /\ UNCHANGED <<fStringStart, nodes, fConfig, fModifiersPool, programs, ignored, fixed>>

\* the step makes a tree node; ign counts the failed SkASSERT a release build ran
\* past on the way (0 or 1)
GoNode(stk, nd, sy, ign) ==
    /\ Len(nodes) < mark.n + MaxNodes
    /\ Len(ignored) + ign <= MaxIgnored
    /\ status' = StatusOf(stk)
    /\ stack' = stk
    /\ ret' = Len(nodes) + 1
    /\ nodes' = Append(nodes, nd)
    /\ syms' = sy
    /\ ignored' = (IF ign = 0 THEN ignored ELSE Append(ignored, "assert"))
    /\ UNCHANGED <<fStringStart, fSymbolTable, fSymbols, tables,
                   fConfig, fModifiersPool, programs, log, fixed>>

\* sym is the symbol the node refers to or, for a Block, For or Switch, the scope
\* handed to its Make; val holds the low 32 bits of a value as an int32_t, hi the
\* 32 bits above them
Node(kind, sym, val, kids) ==
    [kind |-> kind, sym |-> sym, type |-> Null, val |-> val, hi |-> 0, kids |-> kids]

\* ----------------------------------------------------- scopes and the id table
\* SymbolTable::takeOwnershipOfSymbol: scope t owns the new symbol s
OwnedBy(t, s) == [tables EXCEPT ![t].fOwned = Append(@, s)]
\* a variant of the binding in which scope t also takes ownership of s
addWithOwnership(t, s) ==
    [tables EXCEPT ![t].fSymbols = Append(@, s), ![t].fOwned = Append(@, s)]
\* SymbolTable::addWithoutOwnership: scope t binds s without owning it
BoundIn(t, s) == [tables EXCEPT ![t].fSymbols = Append(@, s)]
\* Rehydrator::addSymbol: the id table after id is registered for symbol s
addSymbol(id, s) == [i \in DOMAIN fSymbols \cup {id} |-> IF i = id THEN s ELSE fSymbols[i]]
\* the symbol registered under id, Null when none is
Registered(id) == IF id \in DOMAIN fSymbols THEN fSymbols[id] ELSE Null
\* the record of a registration and of a resolution: the id, the symbol, and the
\* offset of the command that registers, or the cursor after the id resolved
Added(id, s) == Append(log, [op |-> "add", id |-> id, sym |-> s, from |-> Top.ip])
Resolved(id, s) == Append(log, [op |-> "ref", id |-> id, sym |-> s, from |-> fIP])

\* a variant that hands a new symbol to the scope enclosing the current one
EnclosingScope ==
    IF tables[fSymbolTable].fParent # Null THEN tables[fSymbolTable].fParent ELSE fSymbolTable

\* the scope that takes ownership of a symbol symbol() creates
OwnerScope == fSymbolTable

\* a variant that numbers the registrations itself, in the order they are made
RegisteredInOrder(f) == Cardinality({i \in DOMAIN log : log[i].op = "add"})

\* the id a symbol is registered under: the id symbol() read into its local
RegisteredAs(f) == f.id

\* symbol() made the symbol rec: the current scope owns it and, for a command that
\* carries an id, addSymbol registers it
Made(stk, rec, registers) ==
    LET s == Len(syms) + 1
        id == RegisteredAs(Top)
    IN  /\ Len(syms) < mark.s + MaxSyms
        /\ GoHeap(stk, s, fSymbolTable, OwnedBy(OwnerScope, s), Append(syms, rec),
                  IF registers THEN addSymbol(id, s) ELSE fSymbols,
                  IF registers THEN Added(id, s) ELSE log)

\* a variant of symbolRef that hands back whatever the table holds for the id
symbolRefUnchecked(id, stk) ==
    GoHeap(stk, Registered(id), fSymbolTable, tables, syms, fSymbols,
           Resolved(id, Registered(id)))

\* Rehydrator::symbolRef<T>: the id read must be registered
symbolRef(id, stk) ==
    IF Registered(id) = Null THEN Die("aborted")
    ELSE GoHeap(stk, Registered(id), fSymbolTable, tables, syms, fSymbols,
                Resolved(id, Registered(id)))

\* outcomes of undefined behaviour: the process faults, or runs on
UB == {"crashed", "on"}

\* ------------------------------------------------------------- session
Init ==
    /\ SK_DEBUG \in BOOLEAN
    /\ family \in FamilyIds
    /\ fEnd = Open
    /\ src = [p \in 0..(MaxLen - 1) |-> Unread]
    /\ fIP = 0
    /\ fStringStart = 0
    /\ fSymbolTable = Null
    /\ fSymbols = <<>>
    /\ tables = BuiltinTables
    /\ syms = BuiltinSyms
    /\ nodes = <<>>
    /\ stack = <<>>
    /\ ret = Null
    /\ status = "new"
    /\ fConfig = Config0
    /\ fModifiersPool = Pool0
    /\ programs = <<>>
    /\ session = 0
    /\ mark = [t |-> 0, s |-> 0, n |-> 0]
    /\ log = <<>>
    /\ ignored = <<>>

\* Rehydrator::Rehydrator(compiler, src, length): reads the header
Rehydrator ==
    \/ /\ status = "new" \/ (status = "destroyed" /\ session < MaxSessions)
       /\ fSymbolTable' = makeRootSymbolTableWithPublicTypes
       /\ fIP' = 0
       /\ fSymbols' = <<>>
       /\ stack' = <<Frame("Rehydrator")>>
       /\ status' = "running"
       /\ session' = session + 1
       /\ mark' = [t |-> Len(tables), s |-> Len(syms), n |-> Len(nodes)]
       /\ log' = <<>>
       /\ ignored' = <<>>
       /\ UNCHANGED <<SK_DEBUG, family, src, fEnd, fStringStart, tables, syms, nodes, ret,
                      fConfig, fModifiersPool, programs>>
    \/ /\ At("Rehydrator", "start")
       /\ \E r \in Reads(2, D_Version) :
            IF r.k # "ok" THEN Halt(r)
            ELSE /\ Took(r)
                 /\ IF r.v # kVersion /\ SK_DEBUG THEN Die("aborted")
                    ELSE /\ r.v # kVersion => Len(ignored) < MaxIgnored
                         /\ ignored' = (IF r.v # kVersion THEN Append(ignored, "version")
                                        ELSE ignored)
                         /\ fStringStart' = r.ip
                         /\ status' = "running"
                         /\ stack' = Goto("strings")
                         /\ UNCHANGED <<fSymbolTable, fSymbols, tables, syms, nodes, ret,
                                        fConfig, fModifiersPool, programs, log, fixed>>
    \/ /\ At("Rehydrator", "strings")
       /\ \E r \in Reads(2, D_Blob) :
            IF r.k # "ok" THEN Halt(r)
            ELSE /\ src' = r.src
                 /\ fIP' = r.ip + r.v
                 \* the skip is not compared with the end of the buffer
                 /\ fEnd' \in IF r.end = Open
                              THEN {Open} \cup r.ip..(r.ip + r.v - 1)
                              ELSE {r.end}
                 /\ fEnd' = Open => r.ip + r.v <= Length
                 /\ Go(Popped, ret)

\* Rehydrator::~Rehydrator: the check is compiled in a debug build only
Destructor ==
    /\ status = "idle"
    /\ fEnd' \in IF fEnd = Open THEN {e \in {fIP, fIP + 1} : e <= Length} ELSE {fEnd}
    /\ status' = (IF SK_DEBUG /\ fIP # fEnd' THEN "aborted" ELSE "destroyed")
    /\ UNCHANGED <<src, fIP, body, fixed>>

\* ------------------------------------------------- the shape of a Program
\* What two Programs have in common when they are structurally identical: handles
\* are replaced by the shape of what they point to.
RECURSIVE SymbolShape(_)
SymbolShape(s) ==
    IF s = Null THEN <<>>
    ELSE <<syms[s].kind, syms[s].name, syms[s].n, syms[s].isUnsigned, syms[s].isBuiltin,
           SymbolShape(syms[s].owner)>>
SymbolShapes(list) == [i \in DOMAIN list |-> SymbolShape(list[i])]
RECURSIVE ScopeShape(_)
ScopeShape(t) ==
    IF t = Null THEN <<>>
    ELSE <<tables[t].fBuiltin, SymbolShapes(tables[t].fOwned), SymbolShapes(tables[t].fSymbols),
           ScopeShape(tables[t].fParent)>>
Scoped == {"Block", "For", "Switch"}
RECURSIVE NodeShape(_)
NodeShape(n) ==
    IF n = Null THEN <<>>
    ELSE <<nodes[n].kind, nodes[n].val, nodes[n].hi,
           IF nodes[n].kind \in Scoped THEN ScopeShape(nodes[n].sym)
           ELSE SymbolShape(nodes[n].sym),
           SymbolShape(nodes[n].type),
           [i \in DOMAIN nodes[n].kids |-> NodeShape(nodes[n].kids[i])]>>
ProgramShape(p) ==
    <<p.fKind, p.fInputs, ScopeShape(p.fSymbols),
      [i \in DOMAIN p.fOwnedElements |-> NodeShape(p.fOwnedElements[i])]>>

\* ------------------------------------------------------------- program
\* the ProgramConfig and the ModifiersPool program() makes: new objects each time
NewConfig == Config0 + session
NewModifiersPool == Pool0 + session
\* dsl::Start and dsl::End, taken to hand the context's configuration and
\* modifiers pool back as they found them
dsl_Start(c) == c
dsl_End(c) == c

\* the Program program() assembles
Program(kind, elems, inputs) ==
    [fSymbols |-> fSymbolTable, fOwnedElements |-> elems, fKind |-> kind,
     fInputs |-> inputs]
\* what is kept of a call of program(): the Program, its shape when it was
\* returned, and the scope the root-scope step returned
Returned(p, root) == [program |-> p, shape |-> ProgramShape(p), root |-> root]
\* the scope program() leaves as the current one
ScopeAfterProgram == tables[fSymbolTable].fParent
\* a variant that leaves the temporary configuration installed
KeptConfig(f) == fConfig

\* the ambient values program() puts back once the elements are decoded
RestoredConfig(f) == f.n
RestoredModifiersPool(f) == f.b

\* Rehydrator::program
program ==
    \/ /\ status = "idle" /\ Len(programs) < session
       /\ \E r \in Reads(1, D_Program) :
            IF r.k # "ok" THEN Halt(r)
            ELSE /\ Took(r)
                 /\ IF r.v = kProgram_Command
                    THEN Go(<<[Frame("program") EXCEPT !.pc = "kind"]>>, ret)
                    ELSE Unsupported("program", <<[Frame("program") EXCEPT !.pc = "kind"]>>,
                                     ret)
    \/ /\ At("program", "kind")
       /\ \E r \in Reads(1, D_Kind) :
            IF r.k # "ok" THEN Halt(r)
            ELSE Took(r) /\ Go(Set([Top EXCEPT !.pc = "version", !.a = r.v]), ret)
    \/ /\ At("program", "version")
       /\ \E r \in Reads(1, {0}) :
            IF r.k # "ok" THEN Halt(r)
            ELSE /\ Took(r)
                 \* oldConfig and oldModifiersPool are kept in n and b
                 /\ fConfig' = dsl_Start(NewConfig)
                 /\ fModifiersPool' = NewModifiersPool
                 /\ fSymbolTable' = moduleForProgramKind(Top.a)
                 \* symbolTable() is entered with the module's scope current
                 /\ stack' = Append(Set([Top EXCEPT !.pc = "elements", !.n = fConfig,
                                                    !.b = fModifiersPool]),
                                    [Frame("symbolTable") EXCEPT
                                        !.at = moduleForProgramKind(Top.a)])
                 /\ status' = "running"
                 /\ UNCHANGED <<fStringStart, fSymbols, tables, syms, nodes, ret, programs,
                                log, ignored, fixed>>
    \/ /\ At("program", "elements")
       /\ UNCHANGED reader
       \* the value symbolTable() returned is dropped; old records it
       /\ Go(Call([Top EXCEPT !.pc = "restore", !.old = ret], "elements"), ret)
    \/ /\ At("program", "restore")
       /\ UNCHANGED reader
       /\ fConfig' = RestoredConfig(Top)
       /\ fModifiersPool' = RestoredModifiersPool(Top)
       /\ stack' = Set([Top EXCEPT !.pc = "inputs", !.list = ret])
       /\ UNCHANGED <<fStringStart, fSymbolTable, fSymbols, tables, syms, nodes, ret, programs,
                      log, ignored, fixed, status>>
    \/ /\ At("program", "inputs")
       /\ \E r \in Reads(1, D_Flag) :
            IF r.k # "ok" THEN Halt(r)
            ELSE /\ Took(r)
                 /\ programs' = Append(programs,
                                       Returned(Program(Top.a, Top.list, r.v), Top.old))
                 /\ fSymbolTable' = ScopeAfterProgram
                 /\ fConfig' = dsl_End(fConfig)
                 /\ fModifiersPool' = dsl_End(fModifiersPool)
                 /\ stack' = Popped
                 /\ status' = StatusOf(Popped)
                 /\ ret' = Len(programs) + 1
                 /\ UNCHANGED <<fStringStart, fSymbols, tables, syms, nodes, log, ignored,
                                fixed>>

\* a variant that makes the scope a child of the parent of the current scope
SiblingScope(builtin) ==
    [fParent |-> tables[fSymbolTable].fParent, fBuiltin |-> builtin, fOwned |-> <<>>,
     fSymbols |-> <<>>]
\* the scope symbolTable() makes: a child of the current scope
NewScope(builtin) ==
    [fParent |-> fSymbolTable, fBuiltin |-> builtin, fOwned |-> <<>>, fSymbols |-> <<>>]

\* a variant of the visible loop that runs once more than the count read
OneMoreVisible(f) == f.i <= f.n
\* the test of the visible loop: entries of the visible list are left to read
MoreVisible(f) == f.i < f.n

\* Rehydrator::symbolTable
symbolTable ==
    \/ /\ At("symbolTable", "start")
       /\ \E r \in Reads(1, D_Scope) :
            IF r.k # "ok" THEN Halt(r)
            ELSE /\ Took(r)
                 /\ IF r.v = kVoid_Command THEN Go(Popped, Null)
                    ELSE IF r.v = kSymbolTable_Command THEN Go(Goto("builtin"), ret)
                    ELSE Unsupported("symbolTable", Goto("builtin"), ret)
    \/ /\ At("symbolTable", "builtin")
       /\ \E r \in Reads(1, D_Flag) :
            IF r.k # "ok" THEN Halt(r)
            ELSE Took(r) /\ Go(Set([Top EXCEPT !.pc = "ownedCount", !.a = r.v]), ret)
    \/ /\ At("symbolTable", "ownedCount")
       /\ Len(tables) < mark.t + MaxTables
       /\ \E r \in Reads(2, D_Owned) :
            IF r.k # "ok" THEN Halt(r)
            ELSE /\ Took(r)
                 /\ GoHeap(Set([Top EXCEPT !.pc = "owned", !.n = r.v, !.i = 0]), ret,
                           Len(tables) + 1, Append(tables, NewScope(Top.a # 0)),
                           syms, fSymbols, log)
    \/ /\ At("symbolTable", "owned")
       /\ UNCHANGED reader
       /\ IF Top.i < Top.n
          THEN Go(Call([Top EXCEPT !.pc = "ownedPush", !.ip = fIP], "symbol"), ret)
          ELSE Go(Goto("symbolCount"), ret)
    \/ /\ At("symbolTable", "ownedPush")
       /\ UNCHANGED reader
       /\ Go(Set([Top EXCEPT !.pc = "owned", !.i = @ + 1, !.list = Append(@, ret)]), ret)
    \/ /\ At("symbolTable", "symbolCount")
       /\ \E r \in Reads(2, D_Visible) :
            IF r.k # "ok" THEN Halt(r)
            ELSE Took(r) /\ Go(Set([Top EXCEPT !.pc = "visible", !.n = r.v, !.i = 0]), ret)
    \/ /\ At("symbolTable", "visible")
       /\ ~MoreVisible(Top)
       /\ UNCHANGED reader
       /\ Go(Popped, fSymbolTable)
    \/ /\ At("symbolTable", "visible")
       /\ MoreVisible(Top)
       /\ \E r \in Reads(2, D_Index) :
            IF r.k # "ok" THEN Halt(r)
            ELSE /\ Took(r)
                 /\ IF r.v = kBuiltin_Symbol THEN Go(Goto("name"), ret)
                    ELSE IF r.v < Len(Top.list) /\ Top.list[r.v + 1] # Null
                    THEN GoHeap(Set([Top EXCEPT !.i = @ + 1]), ret, fSymbolTable,
                                BoundIn(fSymbolTable, Top.list[r.v + 1]), syms, fSymbols, log)
                    ELSE IF r.v < Len(Top.list)
                    \* addWithoutOwnership(nullptr)
                    THEN Die("crashed")
                    \* ownedSymbols[index] beyond the vector: whatever pointer is there
                    ELSE \E o \in UB, g \in DOMAIN syms :
                         IF o = "crashed" THEN Die("crashed")
                         ELSE GoHeap(Set([Top EXCEPT !.i = @ + 1]), ret, fSymbolTable,
                                     BoundIn(fSymbolTable, g), syms, fSymbols, log)
    \/ /\ At("symbolTable", "name")
       /\ \E r \in Reads(2, D_Name) :
            IF r.k # "ok" THEN Halt(r)
            ELSE /\ Took(r)
                 /\ LET s == Lookup(Root(fSymbolTable), r.v)
                    IN  IF s # Null
                        THEN GoHeap(Set([Top EXCEPT !.pc = "visible", !.i = @ + 1]), ret,
                                    fSymbolTable, BoundIn(fSymbolTable, s), syms, fSymbols, log)
                        \* SkASSERT(s), then addWithoutOwnership(nullptr)
                        ELSE IF SK_DEBUG THEN Die("aborted") ELSE Die("crashed")

\* the record of elements(): the element pushed on the list, or the end of the
\* list, with the offset at which the element() call began to read
Listed(e) == Append(log, [op |-> "elem", id |-> e, sym |-> Null, from |-> Top.ip])
Ended == Append(log, [op |-> "end", id |-> Null, sym |-> Null, from |-> Top.ip])

\* Rehydrator::elements
elements ==
    \/ /\ At("elements", "start")
       /\ \E r \in Reads(1, D_Elements) :
            IF r.k # "ok" THEN Halt(r)
            ELSE /\ Took(r)
                 /\ IF r.v = kElements_Command THEN Go(Goto("loop"), ret)
                    ELSE Unsupported("elements", Goto("loop"), ret)
    \/ /\ At("elements", "loop")
       /\ UNCHANGED reader
       /\ Go(Call([Top EXCEPT !.pc = "got", !.ip = fIP], "element"), ret)
    \/ /\ At("elements", "got")
       /\ UNCHANGED reader
       /\ IF ret # Null
          THEN GoHeap(Set([Top EXCEPT !.pc = "loop", !.list = Append(@, ret)]), ret,
                      fSymbolTable, tables, syms, fSymbols, Listed(ret))
          ELSE GoHeap(Popped, Top.list, fSymbolTable, tables, syms, fSymbols, Ended)

\* a decoded symbol is of this kind (Symbol::is<T>() on a non-null pointer)
Is(s, kind) == s # Null /\ syms[s].kind = kind

\* the step makes node nd and returns it
Make(stk, nd) == GoNode(stk, nd, syms, 0)

\* a variant of the link that keeps the definition a declaration already has
keptDefinition(decl, def) ==
    IF syms[decl].definition # Null THEN syms ELSE [syms EXCEPT ![decl].definition = def]
\* decl->setDefinition(result.get()): the declaration points at the new definition
setDefinition(decl, def) == [syms EXCEPT ![decl].definition = def]

\* Rehydrator::element
element ==
    \/ /\ At("element", "start")
       /\ \E r \in Reads(1, D_Element) :
            IF r.k # "ok" THEN Halt(r)
            ELSE /\ Took(r)
                 /\ CASE r.v = kFunctionDefinition_Command -> Go(Goto("fdRef"), ret)
                      [] r.v = kFunctionPrototype_Command -> Go(Goto("fpRef"), ret)
                      [] r.v = kGlobalVar_Command ->
                            Go(Call([Top EXCEPT !.pc = "gvMake"], "statement"), ret)
                      [] r.v = kInterfaceBlock_Command ->
                            Go(Call([Top EXCEPT !.pc = "ibVar"], "symbol"), ret)
                      [] r.v = kStructDefinition_Command ->
                            Go(Call([Top EXCEPT !.pc = "sdMake"], "symbol"), ret)
                      [] r.v = kSharedFunction_Command -> Go(Goto("sfCount"), ret)
                      [] r.v = kElementsComplete_Command -> Go(Popped, Null)
                      \* SkDEBUGFAILF("unsupported element"); return nullptr
                      [] OTHER -> Unsupported("element", Popped, Null)
    \/ /\ At("element", "fdRef")
       /\ \E r \in Reads(2, D_Ref) :
            IF r.k # "ok" THEN Halt(r)
            ELSE /\ Took(r)
                 /\ symbolRef(r.v, Call([Top EXCEPT !.pc = "fdMake", !.a = Registered(r.v)],
                                        "statement"))
    \/ /\ At("element", "fdMake")
       /\ UNCHANGED reader
       /\ \E o \in IF Is(Top.a, "FunctionDeclaration") THEN {"on"} ELSE UB :
            IF o = "crashed" THEN Die("crashed")
            ELSE GoNode(Popped, Node("FunctionDefinition", Top.a, 0, <<ret>>),
                        setDefinition(Top.a, Len(nodes) + 1), 0)
    \/ /\ At("element", "fpRef")
       /\ \E r \in Reads(2, D_Ref) :
            IF r.k # "ok" THEN Halt(r)
            ELSE /\ Took(r)
                 /\ symbolRef(r.v, Goto("fpMake"))
    \/ /\ At("element", "fpMake")
       /\ UNCHANGED reader
       /\ Make(Popped, Node("FunctionPrototype", ret, 0, <<>>))
    \/ /\ At("element", "gvMake")
       /\ UNCHANGED reader
       /\ Make(Popped, Node("GlobalVar", Null, 0, <<ret>>))
    \/ /\ At("element", "ibVar")
       /\ UNCHANGED reader
       \* SkASSERT(var && var->is<Variable>()), then var->as<Variable>()
       /\ IF ret = Null /\ ~SK_DEBUG THEN Die("crashed")
          ELSE SkASSERT(Is(ret, "Variable"), Set([Top EXCEPT !.pc = "ibType", !.a = ret]), ret)
    \/ /\ At("element", "ibType")
       /\ \E r \in Reads(2, D_Name) :
            IF r.k # "ok" THEN Halt(r) ELSE Took(r) /\ Go(Goto("ibInstance"), ret)
    \/ /\ At("element", "ibInstance")
       /\ \E r \in Reads(2, D_Name) :
            IF r.k # "ok" THEN Halt(r) ELSE Took(r) /\ Go(Goto("ibSize"), ret)
    \/ /\ At("element", "ibSize")
       /\ \E r \in Reads(1, {0}) :
            IF r.k # "ok" THEN Halt(r)
            ELSE Took(r) /\ Make(Popped, Node("InterfaceBlock", Top.a, r.v, <<>>))
    \/ /\ At("element", "sdMake")
       /\ UNCHANGED reader
       \* SkASSERT(type && type->is<Type>()), then type->as<Type>()
       /\ IF ret = Null /\ ~SK_DEBUG THEN Die("crashed")
          ELSE IF SK_DEBUG /\ ~Is(ret, "Type") THEN Die("aborted")
          ELSE GoNode(Popped, Node("StructDefinition", ret, 0, <<>>), syms,
                      IF Is(ret, "Type") THEN 0 ELSE 1)
    \/ /\ At("element", "sfCount")
       /\ \E r \in Reads(1, D_Count) :
            IF r.k # "ok" THEN Halt(r)
            ELSE Took(r) /\ Go(Set([Top EXCEPT !.pc = "sfParams", !.n = r.v, !.i = 0]), ret)
    \/ /\ At("element", "sfParams")
       /\ UNCHANGED reader
       /\ IF Top.i < Top.n
          THEN Go(Call([Top EXCEPT !.pc = "sfParam"], "symbol"), ret)
          ELSE Go(Call([Top EXCEPT !.pc = "sfDecl"], "symbol"), ret)
    \/ /\ At("element", "sfParam")
       /\ UNCHANGED reader
       \* SkASSERT(param->is<Variable>())
       /\ IF ret = Null /\ SK_DEBUG THEN Die("crashed")
          ELSE SkASSERT(Is(ret, "Variable"),
                        Set([Top EXCEPT !.pc = "sfParams", !.i = @ + 1]), ret)
    \/ /\ At("element", "sfDecl")
       /\ UNCHANGED reader
       \* SkASSERT(decl->is<FunctionDeclaration>())
       /\ IF ret = Null /\ SK_DEBUG THEN Die("crashed")
          ELSE SkASSERT(Is(ret, "FunctionDeclaration"),
                        Call([Top EXCEPT !.pc = "sfResult"], "element"), ret)
    \/ /\ At("element", "sfResult")
       /\ UNCHANGED reader
       \* SkASSERT(result->is<FunctionDefinition>())
       /\ IF ret = Null /\ SK_DEBUG THEN Die("crashed")
          ELSE SkASSERT(ret # Null /\ nodes[ret].kind = "FunctionDefinition", Popped, ret)

\* a variant of the constructor that installs whatever symbolTable() returned
AutoRehydratorSymbolTable_assigned(symbols) == symbols

\* AutoRehydratorSymbolTable::AutoRehydratorSymbolTable: the current scope once
\* symbolTable() has returned symbols
AutoRehydratorSymbolTable(symbols) == IF symbols # Null THEN symbols ELSE fSymbolTable
\* a variant of the destructor that puts nothing back
AutoRehydratorSymbolTable_kept(f) == fSymbolTable

\* AutoRehydratorSymbolTable::~AutoRehydratorSymbolTable: the scope put back,
\* fOldSymbols, which the frame keeps in old
AutoRehydratorSymbolTable_dtor(f) == f.old

\* a scoped statement is made and its AutoRehydratorSymbolTable goes out of scope
MakeScoped(nd) ==
    /\ Len(nodes) < mark.n + MaxNodes
    /\ nodes' = Append(nodes, nd)
    /\ ret' = Len(nodes) + 1
    /\ fSymbolTable' = AutoRehydratorSymbolTable_dtor(Top)
    /\ stack' = Popped
    /\ UNCHANGED <<fStringStart, fSymbols, tables, syms, fConfig, fModifiersPool, programs,
                   log, ignored, fixed, status>>

\* the scope entry of a Block, For or Switch: fOldSymbols is kept, symbolTable() called
EnterScope(pc) == Go(Call([Top EXCEPT !.pc = pc, !.old = fSymbolTable], "symbolTable"), ret)
\* back from symbolTable(): the constructor's assignment
EnteredScope(stk) ==
    GoHeap(stk, ret, AutoRehydratorSymbolTable(ret), tables, syms, fSymbols, log)

D_Statement == {kBlock_Command, kBreak_Command, kContinue_Command, kDiscard_Command,
                kDo_Command, kExpressionStatement_Command, kFor_Command, kIf_Command,
                kNop_Command, kReturn_Command, kSwitch_Command, kVarDeclaration_Command,
                kVoid_Command, BadTag} \cap Tags
Leaf(tag) == CASE tag = kBreak_Command -> "Break"
               [] tag = kContinue_Command -> "Continue"
               [] tag = kDiscard_Command -> "Discard"
               [] OTHER -> "Nop"

\* Rehydrator::statement
statement ==
    \/ /\ At("statement", "start")
       /\ \E r \in Reads(1, D_Statement) :
            IF r.k # "ok" THEN Halt(r)
            ELSE /\ Took(r)
                 /\ CASE r.v = kBlock_Command -> EnterScope("blkScope")
                      [] r.v \in {kBreak_Command, kContinue_Command, kDiscard_Command,
                                  kNop_Command} -> Make(Popped, Node(Leaf(r.v), Null, 0, <<>>))
                      [] r.v = kDo_Command ->
                            Go(Call([Top EXCEPT !.pc = "doTest"], "statement"), ret)
                      [] r.v = kExpressionStatement_Command ->
                            Go(Call([Top EXCEPT !.pc = "esMake"], "expression"), ret)
                      [] r.v = kFor_Command -> EnterScope("forScope")
                      [] r.v = kIf_Command -> Go(Goto("ifStatic"), ret)
                      [] r.v = kReturn_Command ->
                            Go(Call([Top EXCEPT !.pc = "retMake"], "expression"), ret)
                      [] r.v = kSwitch_Command -> Go(Goto("swStatic"), ret)
                      [] r.v = kVarDeclaration_Command -> Go(Goto("vdRef"), ret)
                      [] r.v = kVoid_Command -> Go(Popped, Null)
                      \* printf("unsupported statement"); SkASSERT(false); return nullptr
                      [] OTHER -> Unsupported("statement", Popped, Null)
    \* kBlock_Command
    \/ /\ At("statement", "blkScope")
       /\ UNCHANGED reader
       /\ EnteredScope(Goto("blkCount"))
    \/ /\ At("statement", "blkCount")
       /\ \E r \in Reads(1, D_Count) :
            IF r.k # "ok" THEN Halt(r)
            ELSE Took(r) /\ Go(Set([Top EXCEPT !.pc = "blkStatements", !.n = r.v]), ret)
    \/ /\ At("statement", "blkStatements")
       /\ UNCHANGED reader
       /\ IF Top.i < Top.n
          THEN Go(Call([Top EXCEPT !.pc = "blkPush"], "statement"), ret)
          ELSE Go(Goto("blkKind"), ret)
    \/ /\ At("statement", "blkPush")
       /\ UNCHANGED reader
       /\ Go(Set([Top EXCEPT !.pc = "blkStatements", !.i = @ + 1, !.list = Append(@, ret)]),
             ret)
    \/ /\ At("statement", "blkKind")
       /\ \E r \in Reads(1, {0}) :
            IF r.k # "ok" THEN Halt(r)
            ELSE Took(r) /\ MakeScoped(Node("Block", fSymbolTable, r.v, Top.list))
    \* kDo_Command
    \/ /\ At("statement", "doTest")
       /\ UNCHANGED reader
       /\ Go(Call([Top EXCEPT !.pc = "doMake", !.list = <<ret>>], "expression"), ret)
    \/ /\ At("statement", "doMake")
       /\ UNCHANGED reader
       /\ Make(Popped, Node("Do", Null, 0, Append(Top.list, ret)))
    \* kExpressionStatement_Command
    \/ /\ At("statement", "esMake")
       /\ UNCHANGED reader
       /\ Make(Popped, Node("ExpressionStatement", Null, 0, <<ret>>))
    \* kFor_Command
    \/ /\ At("statement", "forScope")
       /\ UNCHANGED reader
       /\ EnteredScope(Call([Top EXCEPT !.pc = "forTest"], "statement"))
    \/ /\ At("statement", "forTest")
       /\ UNCHANGED reader
       /\ Go(Call([Top EXCEPT !.pc = "forNext", !.list = <<ret>>], "expression"), ret)
    \/ /\ At("statement", "forNext")
       /\ UNCHANGED reader
       /\ Go(Call([Top EXCEPT !.pc = "forBody", !.list = Append(@, ret)], "expression"), ret)
    \/ /\ At("statement", "forBody")
       /\ UNCHANGED reader
       /\ Go(Call([Top EXCEPT !.pc = "forMake", !.list = Append(@, ret)], "statement"), ret)
    \/ /\ At("statement", "forMake")
       /\ UNCHANGED reader
       /\ MakeScoped(Node("For", fSymbolTable, 0, Append(Top.list, ret)))
    \* kIf_Command
    \/ /\ At("statement", "ifStatic")
       /\ \E r \in Reads(1, D_Flag) :
            IF r.k # "ok" THEN Halt(r)
            ELSE Took(r) /\ Go(Call([Top EXCEPT !.pc = "ifTrue", !.a = r.v], "expression"), ret)
    \/ /\ At("statement", "ifTrue")
       /\ UNCHANGED reader
       /\ Go(Call([Top EXCEPT !.pc = "ifFalse", !.list = <<ret>>], "statement"), ret)
    \/ /\ At("statement", "ifFalse")
       /\ UNCHANGED reader
       /\ Go(Call([Top EXCEPT !.pc = "ifMake", !.list = Append(@, ret)], "statement"), ret)
    \/ /\ At("statement", "ifMake")
       /\ UNCHANGED reader
       /\ Make(Popped, Node("If", Null, Top.a, Append(Top.list, ret)))
    \* kReturn_Command
    \/ /\ At("statement", "retMake")
       /\ UNCHANGED reader
       /\ Make(Popped, Node("Return", Null, 0, <<ret>>))
    \* kSwitch_Command
    \/ /\ At("statement", "swStatic")
       /\ \E r \in Reads(1, D_Flag) :
            IF r.k # "ok" THEN Halt(r)
            ELSE /\ Took(r)
                 /\ Go(Call([Top EXCEPT !.pc = "swScope", !.a = r.v, !.old = fSymbolTable],
                            "symbolTable"), ret)
    \/ /\ At("statement", "swScope")
       /\ UNCHANGED reader
       /\ EnteredScope(Call([Top EXCEPT !.pc = "swCount"], "expression"))
    \/ /\ At("statement", "swCount")
       /\ \E r \in Reads(1, D_Count) :
            IF r.k # "ok" THEN Halt(r)
            ELSE Took(r) /\ Go(Set([Top EXCEPT !.pc = "swCases", !.n = r.v, !.list = <<ret>>]),
                               ret)
    \/ /\ At("statement", "swCases")
       /\ Top.i >= Top.n
       /\ UNCHANGED reader
       /\ MakeScoped(Node("Switch", fSymbolTable, Top.a, Top.list))
    \/ /\ At("statement", "swCases")
       /\ Top.i < Top.n
       /\ \E r \in Reads(1, D_Bool) :
            IF r.k # "ok" THEN Halt(r)
            ELSE /\ Took(r)
                 /\ IF r.v # 0
                    THEN Go(Call([Top EXCEPT !.pc = "swPush"], "statement"), ret)
                    ELSE Go(Goto("swValue"), ret)
    \/ /\ At("statement", "swValue")
       /\ \E r \in Reads(4, D_Word) :
            IF r.k # "ok" THEN Halt(r)
            ELSE Took(r) /\ Go(Call([Top EXCEPT !.pc = "swPush"], "statement"), ret)
    \/ /\ At("statement", "swPush")
       /\ UNCHANGED reader
       /\ Go(Set([Top EXCEPT !.pc = "swCases", !.i = @ + 1, !.list = Append(@, ret)]), ret)
    \* kVarDeclaration_Command
    \/ /\ At("statement", "vdRef")
       /\ \E r \in Reads(2, D_Ref) :
            IF r.k # "ok" THEN Halt(r)
            ELSE /\ Took(r)
                 /\ symbolRef(r.v, Call([Top EXCEPT !.pc = "vdSize", !.a = Registered(r.v)],
                                        "type"))
    \/ /\ At("statement", "vdSize")
       /\ \E r \in Reads(1, {0}) :
            IF r.k # "ok" THEN Halt(r)
            ELSE Took(r) /\ Go(Call([Top EXCEPT !.pc = "vdMake", !.b = ret], "expression"), ret)
    \/ /\ At("statement", "vdMake")
       /\ UNCHANGED reader
       /\ Make(Popped, [Node("VarDeclaration", Top.a, 0, <<ret>>) EXCEPT !.type = Top.b])

\* Rehydrator::possiblyBuiltinSymbolRef
possiblyBuiltinSymbolRef ==
    \/ /\ At("possiblyBuiltinSymbolRef", "start")
       /\ \E r \in Reads(2, D_Ref) :
            IF r.k # "ok" THEN Halt(r)
            ELSE /\ Took(r)
                 /\ IF r.v = kBuiltin_Symbol THEN Go(Goto("name"), ret)
                    ELSE symbolRef(r.v, Popped)
    \/ /\ At("possiblyBuiltinSymbolRef", "name")
       /\ \E r \in Reads(2, D_Name) :
            IF r.k # "ok" THEN Halt(r)
            ELSE /\ Took(r)
                 /\ LET s == Lookup(Root(fSymbolTable), r.v)
                    IN  IF s = Null THEN Die("aborted")
                        ELSE GoHeap(Popped, s, fSymbolTable, tables, syms, fSymbols, log)

D_Layout == {kBuiltinLayout_Command, kDefaultLayout_Command, kLayout_Command, BadTag} \cap Tags
\* the widths of the fields of kLayout_Command, in wire order
LayoutFields == <<4, 1, 2, 2, 1, 1, 2, 1>>

\* Rehydrator::layout
layout ==
    \/ /\ At("layout", "start")
       /\ \E r \in Reads(1, D_Layout) :
            IF r.k # "ok" THEN Halt(r)
            ELSE /\ Took(r)
                 /\ CASE r.v = kBuiltinLayout_Command -> Go(Goto("builtin"), ret)
                      [] r.v = kDefaultLayout_Command -> Go(Popped, ret)
                      [] r.v = kLayout_Command ->
                            Go(Set([Top EXCEPT !.pc = "fields", !.i = 1]), ret)
                      [] OTHER -> Unsupported("layout", Popped, ret)
    \/ /\ At("layout", "builtin")
       /\ \E r \in Reads(2, {0}) :
            IF r.k # "ok" THEN Halt(r) ELSE Took(r) /\ Go(Popped, ret)
    \/ /\ At("layout", "fields")
       /\ \E r \in Reads(LayoutFields[Top.i], {0}) :
            IF r.k # "ok" THEN Halt(r)
            ELSE /\ Took(r)
                 /\ IF Top.i < Len(LayoutFields)
                    THEN Go(Set([Top EXCEPT !.i = @ + 1]), ret)
                    ELSE Go(Popped, ret)

D_Modifiers == {kDefaultModifiers_Command, kModifiers8Bit_Command, kModifiers_Command, BadTag} \cap Tags

\* Rehydrator::modifiers
modifiers ==
    \/ /\ At("modifiers", "start")
       /\ \E r \in Reads(1, D_Modifiers) :
            IF r.k # "ok" THEN Halt(r)
            ELSE /\ Took(r)
                 /\ CASE r.v = kDefaultModifiers_Command -> Go(Popped, ret)
                      [] r.v = kModifiers8Bit_Command ->
                            Go(Call([Top EXCEPT !.pc = "flags", !.n = 1], "layout"), ret)
                      [] r.v = kModifiers_Command ->
                            Go(Call([Top EXCEPT !.pc = "flags", !.n = 4], "layout"), ret)
                      [] OTHER -> Unsupported("modifiers", Popped, ret)
    \/ /\ At("modifiers", "flags")
       /\ \E r \in Reads(Top.n, {0}) :
            IF r.k # "ok" THEN Halt(r) ELSE Took(r) /\ Go(Popped, ret)

D_Symbol == {kArrayType_Command, kFunctionDeclaration_Command, kField_Command,
             kStructType_Command, kSymbolRef_Command, kVariable_Command, BadTag} \cap Tags

\* the tag of a symbol command is read at the cursor: the frame notes the offset
Began(pc) == Set([Top EXCEPT !.pc = pc, !.ip = fIP])

\* a variant of the Field case that registers the Field like the other symbols
FieldRegistered == TRUE
\* the Field case returns its result without a call of addSymbol
FieldRegisters == FALSE

\* Rehydrator::symbol
symbol ==
    \/ /\ At("symbol", "start")
       /\ \E r \in Reads(1, D_Symbol) :
            IF r.k # "ok" THEN Halt(r)
            ELSE /\ Took(r)
                 /\ CASE r.v = kArrayType_Command -> Go(Began("atId"), ret)
                      [] r.v = kFunctionDeclaration_Command -> Go(Began("fnId"), ret)
                      [] r.v = kField_Command -> Go(Began("fieldOwner"), ret)
                      [] r.v = kStructType_Command -> Go(Began("stId"), ret)
                      [] r.v = kSymbolRef_Command ->
                            Go(Append(Popped, Frame("possiblyBuiltinSymbolRef")), ret)
                      [] r.v = kVariable_Command -> Go(Began("varId"), ret)
                      \* printf("unsupported symbol"); SkASSERT(false); return nullptr
                      [] OTHER -> Unsupported("symbol", Popped, Null)
    \* kArrayType_Command
    \/ /\ At("symbol", "atId")
       /\ \E r \in Reads(2, D_Id) :
            IF r.k # "ok" THEN Halt(r)
            ELSE Took(r) /\ Go(Call([Top EXCEPT !.pc = "atCount", !.id = r.v], "type"), ret)
    \/ /\ At("symbol", "atCount")
       /\ \E r \in Reads(1, {0, 255}) :
            IF r.k # "ok" THEN Halt(r)
            ELSE /\ Took(r)
                 \* componentType->getArrayName(count)
                 /\ IF ret = Null THEN Die("crashed")
                    ELSE Made(Popped, Sym("Type", syms[ret].name, FALSE, FALSE, ret,
                                          Signed(r.v, 1)), TRUE)
    \* kFunctionDeclaration_Command
    \/ /\ At("symbol", "fnId")
       /\ \E r \in Reads(2, D_Id) :
            IF r.k # "ok" THEN Halt(r)
            ELSE Took(r) /\ Go(Call([Top EXCEPT !.pc = "fnName", !.id = r.v], "modifiers"), ret)
    \/ /\ At("symbol", "fnName")
       /\ \E r \in Reads(2, D_Name) :
            IF r.k # "ok" THEN Halt(r)
            ELSE Took(r) /\ Go(Set([Top EXCEPT !.pc = "fnParameterCount", !.a = r.v]), ret)
    \/ /\ At("symbol", "fnParameterCount")
       /\ \E r \in Reads(1, D_Count) :
            IF r.k # "ok" THEN Halt(r)
            ELSE Took(r) /\ Go(Set([Top EXCEPT !.pc = "fnParameters", !.n = r.v]), ret)
    \/ /\ At("symbol", "fnParameters")
       /\ UNCHANGED reader
       /\ IF Top.i < Top.n
          THEN Go(Call([Top EXCEPT !.pc = "fnPush"], "symbol"), ret)
          ELSE Go(Call([Top EXCEPT !.pc = "fnMake"], "type"), ret)
    \/ /\ At("symbol", "fnPush")
       /\ UNCHANGED reader
       \* &this->symbol()->as<Variable>()
       /\ IF ret = Null THEN Die("crashed")
          ELSE SkASSERT(Is(ret, "Variable"),
                        Set([Top EXCEPT !.pc = "fnParameters", !.i = @ + 1,
                                        !.list = Append(@, ret)]), ret)
    \/ /\ At("symbol", "fnMake")
       /\ UNCHANGED reader
       /\ Made(Popped, Sym("FunctionDeclaration", Top.a, FALSE, tables[fSymbolTable].fBuiltin,
                           ret, Top.n), TRUE)
    \* kField_Command
    \/ /\ At("symbol", "fieldOwner")
       /\ \E r \in Reads(2, D_Ref) :
            IF r.k # "ok" THEN Halt(r)
            ELSE Took(r) /\ symbolRef(r.v, Set([Top EXCEPT !.pc = "fieldIndex",
                                                           !.a = Registered(r.v)]))
    \/ /\ At("symbol", "fieldIndex")
       /\ \E r \in Reads(1, {0}) :
            IF r.k # "ok" THEN Halt(r)
            ELSE /\ Took(r)
                 /\ Made(Popped, Sym("Field", syms[Top.a].name, FALSE, FALSE, Top.a, r.v),
                         FieldRegisters)
    \* kStructType_Command
    \/ /\ At("symbol", "stId")
       /\ \E r \in Reads(2, D_Id) :
            IF r.k # "ok" THEN Halt(r)
            ELSE Took(r) /\ Go(Set([Top EXCEPT !.pc = "stName", !.id = r.v]), ret)
    \/ /\ At("symbol", "stName")
       /\ \E r \in Reads(2, D_Name) :
            IF r.k # "ok" THEN Halt(r)
            ELSE Took(r) /\ Go(Set([Top EXCEPT !.pc = "stFieldCount", !.a = r.v]), ret)
    \/ /\ At("symbol", "stFieldCount")
       /\ \E r \in Reads(1, D_Count) :
            IF r.k # "ok" THEN Halt(r)
            ELSE Took(r) /\ Go(Set([Top EXCEPT !.pc = "stFields", !.n = r.v]), ret)
    \/ /\ At("symbol", "stFields")
       /\ Top.i < Top.n
       /\ UNCHANGED reader
       /\ Go(Call([Top EXCEPT !.pc = "stFieldName"], "modifiers"), ret)
    \/ /\ At("symbol", "stFieldName")
       /\ \E r \in Reads(2, D_Name) :
            IF r.k # "ok" THEN Halt(r)
            ELSE Took(r) /\ Go(Call([Top EXCEPT !.pc = "stFieldType"], "type"), ret)
    \/ /\ At("symbol", "stFieldType")
       /\ UNCHANGED reader
       /\ Go(Set([Top EXCEPT !.pc = "stFields", !.i = @ + 1, !.list = Append(@, ret)]), ret)
    \/ /\ At("symbol", "stFields")
       /\ Top.i >= Top.n
       /\ \E r \in Reads(1, D_Flag) :
            IF r.k # "ok" THEN Halt(r)
            ELSE /\ Took(r)
                 /\ Made(Popped, Sym("Type", Top.a, FALSE, FALSE, Null, Top.n), TRUE)
    \* kVariable_Command
    \/ /\ At("symbol", "varId")
       /\ \E r \in Reads(2, D_Id) :
            IF r.k # "ok" THEN Halt(r)
            ELSE Took(r) /\ Go(Call([Top EXCEPT !.pc = "varName", !.id = r.v], "modifiers"), ret)
    \/ /\ At("symbol", "varName")
       /\ \E r \in Reads(2, D_Name) :
            IF r.k # "ok" THEN Halt(r)
            ELSE Took(r) /\ Go(Call([Top EXCEPT !.pc = "varStorage", !.a = r.v], "type"), ret)
    \/ /\ At("symbol", "varStorage")
       /\ \E r \in Reads(1, {0}) :
            IF r.k # "ok" THEN Halt(r)
            ELSE /\ Took(r)
                 /\ Made(Popped, Sym("Variable", Top.a, FALSE, tables[fSymbolTable].fBuiltin,
                                     ret, r.v), TRUE)

\* Rehydrator::type
type ==
    \/ /\ At("type", "start")
       /\ UNCHANGED reader
       /\ Go(Call([Top EXCEPT !.pc = "check"], "symbol"), ret)
    \/ /\ At("type", "check")
       /\ UNCHANGED reader
       \* SkASSERT(result->kind() == Symbol::Kind::kType)
       /\ IF ret = Null /\ SK_DEBUG THEN Die("crashed")
          ELSE SkASSERT(Is(ret, "Type"), Popped, ret)

\* constructors whose argument list must hold exactly one expression
SingleArgument == {kConstructorArrayCast_Command, kConstructorDiagonalMatrix_Command,
                   kConstructorMatrixResize_Command, kConstructorScalarCast_Command,
                   kConstructorSplat_Command, kConstructorCompoundCast_Command}
Constructors == SingleArgument \cup {kConstructorArray_Command, kConstructorCompound_Command,
                                     kConstructorStruct_Command}
D_Expression == (ExpressionTags \cup {kVoid_Command, BadTag}) \cap Tags

\* a variant that sign-extends whatever the type
SignExtended(t, v) == IF v < 0 THEN 0 - 1 ELSE 0

\* the upper half of the 64-bit value of an IntLiteral of type t whose 32 wire
\* bits are v: readU32 zero-extends, readS32 sign-extends
IntLiteralValue(t, v) == IF syms[t].isUnsigned THEN 0 ELSE IF v < 0 THEN 0 - 1 ELSE 0

\* the arguments a constructor with this tag is made from
ConstructorArguments(tag, args) ==
    IF tag \in SingleArgument
    THEN IF args = <<>> THEN <<Null>> ELSE <<args[1]>>
    ELSE args

\* Rehydrator::expression
expression ==
    \/ /\ At("expression", "start")
       /\ \E r \in Reads(1, D_Expression) :
            IF r.k # "ok" THEN Halt(r)
            ELSE /\ Took(r)
                 /\ CASE r.v = kBinary_Command ->
                            Go(Call([Top EXCEPT !.pc = "binOp"], "expression"), ret)
                      [] r.v = kBoolLiteral_Command -> Go(Goto("boolValue"), ret)
                      [] r.v \in Constructors ->
                            Go(Call([Top EXCEPT !.pc = "ctorArgs", !.a = r.v], "type"), ret)
                      [] r.v = kFieldAccess_Command ->
                            Go(Call([Top EXCEPT !.pc = "faIndex"], "expression"), ret)
                      [] r.v = kFloatLiteral_Command ->
                            Go(Call([Top EXCEPT !.pc = "flBits"], "type"), ret)
                      [] r.v = kFunctionCall_Command ->
                            Go(Call([Top EXCEPT !.pc = "fcRef"], "type"), ret)
                      [] r.v = kIndex_Command ->
                            Go(Call([Top EXCEPT !.pc = "ixIndex"], "expression"), ret)
                      [] r.v = kIntLiteral_Command ->
                            Go(Call([Top EXCEPT !.pc = "ilValue"], "type"), ret)
                      [] r.v \in {kPostfix_Command, kPrefix_Command} ->
                            Go(Set([Top EXCEPT !.pc = "unOp", !.a = r.v]), ret)
                      [] r.v = kSetting_Command -> Go(Goto("setName"), ret)
                      [] r.v = kSwizzle_Command ->
                            Go(Call([Top EXCEPT !.pc = "szCount"], "expression"), ret)
                      [] r.v = kTernary_Command ->
                            Go(Call([Top EXCEPT !.pc = "tnTrue"], "expression"), ret)
                      [] r.v = kVariableReference_Command ->
                            Go(Call([Top EXCEPT !.pc = "vrKind"], "possiblyBuiltinSymbolRef"),
                               ret)
                      [] r.v = kVoid_Command -> Go(Popped, Null)
                      \* printf("unsupported expression"); SkASSERT(false); return nullptr
                      [] OTHER -> Unsupported("expression", Popped, Null)
    \/ /\ At("expression", "binOp")
       /\ \E r \in Reads(1, {0}) :
            IF r.k # "ok" THEN Halt(r)
            ELSE Took(r) /\ Go(Call([Top EXCEPT !.pc = "binMake", !.a = r.v, !.list = <<ret>>],
                                    "expression"), ret)
    \/ /\ At("expression", "binMake")
       /\ UNCHANGED reader
       /\ Make(Popped, Node("Binary", Null, Top.a, Append(Top.list, ret)))
    \/ /\ At("expression", "boolValue")
       /\ \E r \in Reads(1, D_Flag) :
            IF r.k # "ok" THEN Halt(r)
            ELSE Took(r) /\ Make(Popped, Node("BoolLiteral", Null, r.v, <<>>))
    \* the constructors
    \/ /\ At("expression", "ctorArgs")
       /\ UNCHANGED reader
       /\ Go(Call([Top EXCEPT !.pc = "ctorMake", !.b = ret], "expressionArray"), ret)
    \/ /\ At("expression", "ctorMake")
       /\ UNCHANGED reader
       \* SkASSERT(args.size() == 1); Make(context, pos, *type, std::move(args[0]))
       /\ LET short == Top.a \in SingleArgument /\ Len(ret) # 1
          IN  IF short /\ SK_DEBUG THEN Die("aborted")
              ELSE \E o \in IF Top.b = Null \/ (short /\ ret = <<>>) THEN UB ELSE {"on"} :
                     IF o = "crashed" THEN Die("crashed")
                     ELSE GoNode(Popped, Node("Constructor", Top.b, Top.a,
                                              ConstructorArguments(Top.a, ret)),
                                 syms, IF short THEN 1 ELSE 0)
    \/ /\ At("expression", "faIndex")
       /\ \E r \in Reads(1, {0}) :
            IF r.k # "ok" THEN Halt(r)
            ELSE Took(r) /\ Go(Set([Top EXCEPT !.pc = "faKind", !.a = r.v, !.list = <<ret>>]),
                               ret)
    \/ /\ At("expression", "faKind")
       /\ \E r \in Reads(1, {0}) :
            IF r.k # "ok" THEN Halt(r)
            ELSE Took(r) /\ Make(Popped, Node("FieldAccess", Null, Top.a, Top.list))
    \/ /\ At("expression", "flBits")
       /\ \E r \in Reads(4, D_Word) :
            IF r.k # "ok" THEN Halt(r)
            ELSE Took(r) /\ Make(Popped, Node("FloatLiteral", ret, r.v, <<>>))
    \* kFunctionCall_Command
    \/ /\ At("expression", "fcRef")
       /\ UNCHANGED reader
       /\ Go(Call([Top EXCEPT !.pc = "fcArgs", !.b = ret], "possiblyBuiltinSymbolRef"), ret)
    \/ /\ At("expression", "fcArgs")
       /\ UNCHANGED reader
       /\ Go(Call([Top EXCEPT !.pc = "fcMake", !.a = ret], "expressionArray"), ret)
    \/ /\ At("expression", "fcMake")
       /\ UNCHANGED reader
       \* &symbol->as<FunctionDeclaration>(), then FindBestFunctionForCall
       /\ IF Is(Top.a, "FunctionDeclaration")
          THEN Make(Popped, [Node("FunctionCall", Top.a, 0, ret) EXCEPT !.type = Top.b])
          ELSE IF SK_DEBUG THEN Die("aborted")
          ELSE \E o \in UB :
                 IF o = "crashed" THEN Die("crashed")
                 ELSE GoNode(Popped, [Node("FunctionCall", Top.a, 0, ret)
                                      EXCEPT !.type = Top.b], syms, 1)
    \/ /\ At("expression", "ixIndex")
       /\ UNCHANGED reader
       /\ Go(Call([Top EXCEPT !.pc = "ixMake", !.list = <<ret>>], "expression"), ret)
    \/ /\ At("expression", "ixMake")
       /\ UNCHANGED reader
       /\ Make(Popped, Node("Index", Null, 0, Append(Top.list, ret)))
    \* kIntLiteral_Command
    \/ /\ At("expression", "ilValue")
       \* type->isUnsigned() comes before the read
       /\ IF ret = Null THEN Die("crashed") /\ UNCHANGED reader
          ELSE \E r \in Reads(4, D_Word) :
                 IF r.k # "ok" THEN Halt(r)
                 ELSE Took(r) /\ Make(Popped, [Node("IntLiteral", ret, r.v, <<>>)
                                               EXCEPT !.hi = IntLiteralValue(ret, r.v)])
    \/ /\ At("expression", "unOp")
       /\ \E r \in Reads(1, {0}) :
            IF r.k # "ok" THEN Halt(r)
            ELSE Took(r) /\ Go(Call([Top EXCEPT !.pc = "unMake", !.b = r.v], "expression"), ret)
    \/ /\ At("expression", "unMake")
       /\ UNCHANGED reader
       /\ Make(Popped, Node(IF Top.a = kPostfix_Command THEN "Postfix" ELSE "Prefix",
                            Null, Top.b, <<ret>>))
    \/ /\ At("expression", "setName")
       /\ \E r \in Reads(2, D_Name) :
            IF r.k # "ok" THEN Halt(r)
            ELSE Took(r) /\ Make(Popped, Node("Setting", Null, r.v, <<>>))
    \* kSwizzle_Command
    \/ /\ At("expression", "szCount")
       /\ \E r \in Reads(1, D_Count) :
            IF r.k # "ok" THEN Halt(r)
            ELSE Took(r) /\ Go(Set([Top EXCEPT !.pc = "szComponents", !.n = r.v,
                                                !.list = <<ret>>]), ret)
    \/ /\ At("expression", "szComponents")
       /\ Top.i < Top.n
       /\ \E r \in Reads(1, {0}) :
            IF r.k # "ok" THEN Halt(r)
            ELSE Took(r) /\ Go(Set([Top EXCEPT !.i = @ + 1]), ret)
    \/ /\ At("expression", "szComponents")
       /\ Top.i >= Top.n
       /\ UNCHANGED reader
       /\ Make(Popped, Node("Swizzle", Null, Top.n, Top.list))
    \* kTernary_Command
    \/ /\ At("expression", "tnTrue")
       /\ UNCHANGED reader
       /\ Go(Call([Top EXCEPT !.pc = "tnFalse", !.list = <<ret>>], "expression"), ret)
    \/ /\ At("expression", "tnFalse")
       /\ UNCHANGED reader
       /\ Go(Call([Top EXCEPT !.pc = "tnMake", !.list = Append(@, ret)], "expression"), ret)
    \/ /\ At("expression", "tnMake")
       /\ UNCHANGED reader
       /\ Make(Popped, Node("Ternary", Null, 0, Append(Top.list, ret)))
    \* kVariableReference_Command
    \/ /\ At("expression", "vrKind")
       /\ \E r \in Reads(1, {0}) :
            IF r.k # "ok" THEN Halt(r)
            ELSE /\ Took(r)
                 \* &this->possiblyBuiltinSymbolRef()->as<Variable>()
                 /\ IF SK_DEBUG /\ ~Is(ret, "Variable") THEN Die("aborted")
                    ELSE GoNode(Popped, Node("VariableReference", ret, r.v, <<>>), syms,
                                IF Is(ret, "Variable") THEN 0 ELSE 1)

\* Rehydrator::expressionArray
expressionArray ==
    \/ /\ At("expressionArray", "start")
       /\ \E r \in Reads(1, D_Count) :
            IF r.k # "ok" THEN Halt(r)
            ELSE Took(r) /\ Go(Set([Top EXCEPT !.pc = "loop", !.n = r.v]), ret)
    \/ /\ At("expressionArray", "loop")
       /\ UNCHANGED reader
       /\ IF Top.i < Top.n
          THEN Go(Call([Top EXCEPT !.pc = "push"], "expression"), ret)
          ELSE Go(Popped, Top.list)
    \/ /\ At("expressionArray", "push")
       /\ UNCHANGED reader
       /\ Go(Set([Top EXCEPT !.pc = "loop", !.i = @ + 1, !.list = Append(@, ret)]), ret)

Next ==
    \/ Rehydrator
    \/ Destructor
    \/ program
    \/ symbolTable
    \/ elements
    \/ element
    \/ statement
    \/ expression
    \/ expressionArray
    \/ symbol
    \/ type
    \/ modifiers
    \/ layout
    \/ possiblyBuiltinSymbolRef

Spec == Init /\ [][Next]_vars

\* ================================================================ properties

\* the statement() steps at which a Block, a For or a Switch is made and returned
ScopedReturn == {"blkKind", "forMake", "swCases"}
\* positions of the registrations and of the resolutions in the record
Adds == {i \in DOMAIN log : log[i].op = "add"}
Refs == {i \in DOMAIN log : log[i].op = "ref"}
\* the decoders whose default branch reports an unsupported command
Decoders == {"layout", "modifiers", "symbol", "element", "statement", "expression",
             "symbolTable"}
\* the kind of symbol each registering command makes
KindOf(tag) ==
    IF tag \in {kArrayType_Command, kStructType_Command} THEN "Type"
    ELSE IF tag = kFunctionDeclaration_Command THEN "FunctionDeclaration"
    ELSE IF tag = kVariable_Command THEN "Variable"
    ELSE "none"
\* the 16-bit value the stream holds at offset p
U16At(p) == src[p] + 256 * src[p + 1]
\* the program() call of this session has returned its Program
ProgramReturned == session > 0 /\ Len(programs) = session /\ status \in {"idle", "destroyed"}

\* C1 (scope balance): whenever statement() returns a Block, a For or a Switch,
\* at any depth and whether its scope entry was a SymbolTable or Void, the current
\* scope is again the scope that was current when that statement() call began.
C1_ScopeBalance ==
    [][(/\ status = "running"
        /\ stack # <<>>
        /\ Top.fn = "statement"
        /\ Top.pc \in ScopedReturn
        /\ stack' = Popped
        /\ status' \in {"running", "idle"})
       => fSymbolTable' = Top.at]_vars

\* a scoped statement nested in another has been returned, the inner one with a
\* scope of its own
C1_Nested ==
    \E n \in DOMAIN nodes :
        /\ nodes[n].kind \in Scoped
        /\ \E i \in DOMAIN nodes[n].kids :
              LET m == nodes[n].kids[i]
              IN  /\ m # Null
                  /\ nodes[m].kind \in Scoped
                  /\ nodes[m].sym # nodes[n].sym
                  /\ nodes[m].sym > mark.t

\* C2 (full consumption): the cursor never passes the end of the buffer, and when
\* the session ends the cursor is at the end of the buffer.
C2_FullConsumption ==
    /\ fEnd # Open => fIP <= fEnd
    /\ (status = "destroyed" /\ fEnd # Open) => fIP = fEnd

\* C3 (no forward references): every id a backreference resolves was registered
\* earlier in the same session, and the backreference yields the symbol that id
\* is registered for; an id not yet registered is never resolved.
C3_NoForwardReferences ==
    \A j \in Refs :
        /\ log[j].sym # Null
        /\ \E i \in Adds :
              /\ i < j
              /\ log[i].from < log[j].from
              /\ log[i].id = log[j].id
              /\ log[i].sym = log[j].sym
              /\ \A k \in Adds : (i < k /\ k < j) => log[k].id # log[j].id

\* a backreference has been resolved
C3_Resolved == Refs # {}

C5_BuiltinRootImmutable ==
    \A t \in DOMAIN BuiltinTables : tables[t] = BuiltinTables[t]

\* C6 (fatal on corruption): a Program is returned only when no decoder met a
\* command tag it does not recognise and no read passed the end of the buffer: an
\* unrecognised element tag never ends the element list.
C6_FatalOnCorruption ==
    ProgramReturned =>
        /\ \A i \in DOMAIN ignored : ignored[i] \notin Decoders
        /\ fEnd # Open => fIP <= fEnd

\* C8 (determinism): decoding the same bytes against the same base module twice
\* gives structurally identical programs.
C8_Determinism ==
    \A i, j \in DOMAIN programs : programs[i].shape = programs[j].shape

C10_FinalScope ==
    /\ \A i \in DOMAIN programs :
          LET p == programs[i]
          IN  /\ p.root # Null
              /\ p.program.fSymbols = p.root
              /\ tables[p.root].fParent = moduleForProgramKind(p.program.fKind)
    /\ (ProgramReturned /\ status = "idle") =>
          fSymbolTable = moduleForProgramKind(programs[session].program.fKind)

\* the elements elements() pushed on its list and the ends of list it met, in order
IsElem(e) == e.op = "elem"
IsEnd(e) == e.op = "end"
Elems == SelectSeq(log, IsElem)
Ends == SelectSeq(log, IsEnd)

\* C11 (element list): when elements() has returned, its list holds one entry per
\* top-level element command, in the order the commands appear in the stream; the
\* list stopped at the first terminator tag, and the cursor is just after it.
C11_ElementList ==
    At("program", "inputs") =>
        /\ Len(Ends) = 1
        /\ Top.list = [i \in 1..Len(Elems) |-> Elems[i].id]
        /\ \A i, j \in 1..Len(Elems) : i < j => Elems[i].from < Elems[j].from
        /\ \A i \in 1..Len(Elems) :
              /\ Elems[i].from < Ends[1].from
              /\ src[Elems[i].from] # kElementsComplete_Command
        /\ src[Ends[1].from] = kElementsComplete_Command
        /\ fIP = Ends[1].from + 1

\* C12 (integer literal width): the node made for an IntLiteral holds the 32 wire
\* bits as its low half; its upper half is zero when the literal's decoded type is
\* unsigned (zero extension: FF FF FF FF is 4294967295) and the copy of the wire's
\* top bit otherwise (sign extension: FF FF FF FF is -1).
C12_IntLiteralWidth ==
    [][(At("expression", "ilValue") /\ Len(nodes') = Len(nodes) + 1) =>
          LET n == nodes'[Len(nodes')]
          IN  /\ n.kind = "IntLiteral"
              /\ n.sym = ret
              /\ (fEnd' = Open \/ fIP + 4 <= fEnd') =>
                    /\ \A i \in 0..3 : Byte(n.val, i) = src'[fIP + i]
                    /\ n.hi = IF syms[ret].isUnsigned THEN 0
                              ELSE IF src'[fIP + 3] >= 128 THEN 0 - 1 ELSE 0]_vars

\* an IntLiteral of an unsigned type was decoded from the wire bits FF FF FF FF
C12_AllOnes ==
    \E n \in DOMAIN nodes :
        /\ nodes[n].kind = "IntLiteral"
        /\ syms[nodes[n].sym].isUnsigned
        /\ nodes[n].val = 0 - 1
        /\ nodes[n].hi = 0

\* the constructor has returned and program() has not been called yet
Constructed == status = "idle" /\ session > 0 /\ Len(programs) < session

\* C13 (version check): a header whose version differs from kVersion is fatal, so
\* the session never goes on past a version mismatch; when the constructor
\* returns, the cursor is at offset 4 + the string blob's length.
C13_VersionCheck ==
    /\ \A i \in DOMAIN ignored : ignored[i] # "version"
    /\ (Constructed /\ src[0] # Unread /\ src[1] # Unread) => U16At(0) = kVersion
    /\ (Constructed /\ src[2] # Unread /\ src[3] # Unread) => fIP = 4 + U16At(2)

\* the binding the step has just added to the current scope
NewBinding == tables'[fSymbolTable].fSymbols[Len(tables'[fSymbolTable].fSymbols)]
\* the 16-bit value the step has just read at the cursor
U16Read == src'[fIP] + 256 * src'[fIP + 1]

\* C14 (visible-binding validity): a visible entry is bound only if its token is a
\* local index below the number of entries of the scope's owned array, and then
\* to the symbol at that index, or if it is the builtin sentinel and its name
\* resolves in the outermost ancestor, and then to the symbol found there.
C14_VisibleBindingValid ==
    [][/\ (At("symbolTable", "visible") /\ tables' # tables
           /\ (fEnd' = Open \/ fIP + 2 <= fEnd')) =>
             /\ U16Read < Len(Top.list)
             /\ NewBinding = Top.list[U16Read + 1]
       /\ (At("symbolTable", "name") /\ tables' # tables
           /\ (fEnd' = Open \/ fIP + 2 <= fEnd')) =>
             /\ Lookup(Root(fSymbolTable), U16Read) # Null
             /\ NewBinding = Lookup(Root(fSymbolTable), U16Read)]_vars

Range(q) == {q[i] : i \in DOMAIN q}
\* the symbol commands that construct a symbol
Constructing == {kArrayType_Command, kFunctionDeclaration_Command, kField_Command,
                 kStructType_Command, kVariable_Command}

\* C15 (owned pass), as stated: symbolTable() decodes exactly ownedCount symbols
\* into the local array and each of them is owned by the newly created scope,
\* whatever command the entry uses.
C15_OwnedPass ==
    At("symbolTable", "symbolCount") =>
        /\ Len(Top.list) = Top.n
        /\ tables[fSymbolTable].fParent = Top.at
        /\ \A i \in DOMAIN Top.list : Top.list[i] \in Range(tables[fSymbolTable].fOwned)

\* C15, amended: exactly ownedCount entries are decoded into the local array, and
\* an entry whose command constructs a symbol (ArrayType, FunctionDeclaration,
\* Field, StructType, Variable) is owned by the newly created scope.
C15_OwnedConstructed ==
    /\ At("symbolTable", "symbolCount") =>
          /\ Len(Top.list) = Top.n
          /\ tables[fSymbolTable].fParent = Top.at
    /\ At("symbolTable", "ownedPush") =>
          /\ Len(Top.list) = Top.i
          /\ Top.i < Top.n
          /\ tables[fSymbolTable].fParent = Top.at
          /\ src[Top.ip] \in Constructing => ret \in Range(tables[fSymbolTable].fOwned)
\* an entry that constructs a symbol has been decoded and is about to be placed
\* in the owned array
C15_ConstructedEntry ==
    /\ At("symbolTable", "ownedPush")
    /\ src[Top.ip] \in Constructing
    /\ ret \in Range(tables[fSymbolTable].fOwned)

InVisiblePass == At("symbolTable", "visible") \/ At("symbolTable", "name")

\* C16 (visible pass): the visible pass appends exactly symbolCount bindings to the
\* new scope, one per entry and in the order of the entries in the stream, and
\* leaves the owned set of every scope as it was.
C16_VisiblePass ==
    [][InVisiblePass =>
          \* the bindings made so far are as many as the entries read so far
          /\ Len(tables[fSymbolTable].fSymbols) = Top.i
          /\ Top.i <= Top.n
          /\ \A t \in DOMAIN tables : tables'[t].fOwned = tables[t].fOwned
          /\ Len(tables') = Len(tables)
          /\ \A t \in DOMAIN tables : t # fSymbolTable => tables'[t] = tables[t]
          \* an entry is bound at the end of the list, as the cursor passes it
          /\ tables'[fSymbolTable] # tables[fSymbolTable] =>
                /\ \E s \in DOMAIN syms :
                      tables'[fSymbolTable].fSymbols = Append(tables[fSymbolTable].fSymbols, s)
                /\ fIP' = fIP + 2
                /\ Top'.i = Top.i + 1
          \* the scope is returned when symbolCount entries are bound
          /\ Len(stack') < Len(stack) =>
                /\ Top.i = Top.n
                /\ ret' = fSymbolTable
                /\ tables' = tables]_vars
\* symbolTable() is about to return a scope that binds two entries, an owned
\* symbol first and a builtin symbol after it
C16_Bound ==
    /\ At("symbolTable", "visible")
    /\ Top.i = Top.n
    /\ Top.n = 2
    /\ Len(Top.list) = 1
    /\ tables[fSymbolTable].fSymbols[1] = Top.list[1]
    /\ tables[fSymbolTable].fSymbols[2] \in Range(tables[Root(fSymbolTable)].fOwned)
    /\ tables[fSymbolTable].fOwned = Top.list

\* the steps of symbolTable() before the scope is made
BeforeScope == {"start", "builtin", "ownedCount"}
\* the functions symbolTable() calls, directly or not, while it decodes a symbol
SymbolDecoders ==
    {"symbol", "type", "modifiers", "layout", "possiblyBuiltinSymbolRef"}

\* C17 (scope creation): on a SymbolTable tag symbolTable() makes exactly one scope,
\* a child of the scope current on entry, makes it current before the first owned
\* symbol is decoded and returns it; on a Void tag it makes no scope, returns
\* none and leaves the current scope as it was.
C17_ScopeCreation ==
    [][/\ \A k \in DOMAIN stack :
             stack[k].fn = "symbolTable" =>
                IF stack[k].pc \in BeforeScope
                THEN k = Len(stack) /\ fSymbolTable = stack[k].at
                ELSE /\ \A j \in (k + 1)..Len(stack) : stack[j].fn \in SymbolDecoders
                     /\ tables[fSymbolTable].fParent = stack[k].at
                     /\ fSymbolTable' = fSymbolTable
       /\ (status = "running" /\ Top.fn \in SymbolDecoders \cup {"symbolTable"}) =>
             IF At("symbolTable", "ownedCount") /\ status' = "running"
             THEN /\ tables' = Append(tables, tables'[Len(tables')])
                  /\ fSymbolTable' = Len(tables')
                  /\ tables'[fSymbolTable'].fParent = Top.at
                  /\ Len(syms') = Len(syms)
             ELSE Len(tables') = Len(tables)
       /\ (At("symbolTable", "start") /\ Len(stack') < Len(stack)) =>
             /\ (fEnd' = Open \/ fIP + 1 <= fEnd') => src'[fIP] = kVoid_Command
             /\ ret' = Null
             /\ fSymbolTable' = fSymbolTable
             /\ tables' = tables
       /\ (At("symbolTable", "start") /\ status' = "running"
           /\ (fEnd' = Open \/ fIP + 1 <= fEnd') /\ src'[fIP] = kVoid_Command) =>
             Len(stack') < Len(stack)
       /\ (status = "running" /\ Top.fn = "symbolTable" /\ Top.pc # "start"
           /\ Len(stack') < Len(stack)) =>
             /\ ret' = fSymbolTable
             /\ tables[ret'].fParent = Top.at]_vars
\* symbolTable() is about to return the scope of a block, a child of the scope of
\* the program
C17_NestedScope ==
    /\ At("symbolTable", "visible")
    /\ ~MoreVisible(Top)
    /\ Len(stack) > 2
    /\ tables[fSymbolTable].fParent = Top.at
    /\ tables[Top.at].fParent # Null
    /\ ~tables[Top.at].fBuiltin

\* C18 (builtin name resolution): a visible entry that carries the builtin sentinel
\* is bound to the symbol the outermost ancestor of the current scope binds under
\* the entry's name, whatever the scopes below the outermost ancestor bind under it.
C18_OutermostOnly ==
    [][(At("symbolTable", "name") /\ tables' # tables
        /\ (fEnd' = Open \/ fIP + 2 <= fEnd')) =>
           /\ tables[Root(fSymbolTable)].fParent = Null
           /\ NewBinding \in Range(tables[Root(fSymbolTable)].fSymbols)
           /\ syms[NewBinding].name = U16Read]_vars
\* the scope of a block has bound a builtin by name although the scope of the
\* program, between it and the outermost ancestor, binds another symbol under
\* that name
C18_Shadowed ==
    /\ At("symbolTable", "visible")
    /\ Top.i >= 1
    /\ U16At(fIP - 4) = kBuiltin_Symbol
    /\ LET here == tables[fSymbolTable]
           b == here.fSymbols[Len(here.fSymbols)]
           p == here.fParent
       IN  /\ p # Null
           /\ tables[p].fParent # Null
           /\ b \in Range(tables[Root(fSymbolTable)].fOwned)
           /\ syms[b].name = U16At(fIP - 2)
           /\ \E q \in Range(tables[p].fSymbols) : q # b /\ syms[q].name = syms[b].name

IsDefinition(e) == e # Null /\ nodes[e].kind = "FunctionDefinition"

\* C19 (definition/declaration linkage), as stated: when elements() has returned,
\* the declaration every FunctionDefinition of the list refers to has that
\* element as its definition.
C19_Linked ==
    At("program", "inputs") =>
        \A i \in DOMAIN Top.list :
            IsDefinition(Top.list[i]) => syms[nodes[Top.list[i]].sym].definition = Top.list[i]
\* the FunctionDefinition nodes that refer to symbol s
DefinitionsOf(s) == {n \in DOMAIN nodes : nodes[n].kind = "FunctionDefinition" /\ nodes[n].sym = s}

\* C19, amended: a declaration that FunctionDefinition elements refer to has as its
\* definition the one of them that was decoded last, and a declaration none
\* refers to has no definition.
C19_LastLinked ==
    \A s \in DOMAIN syms :
        IF DefinitionsOf(s) = {} THEN syms[s].definition = Null
        ELSE /\ syms[s].definition \in DefinitionsOf(s)
             /\ \A n \in DefinitionsOf(s) : n <= syms[s].definition
\* elements() has returned two FunctionDefinition elements that refer to one
\* FunctionDeclaration, which has the second as its definition
C19_DefinedTwice ==
    /\ SK_DEBUG
    /\ At("program", "inputs")
    /\ Len(Top.list) = 2
    /\ IsDefinition(Top.list[1]) /\ IsDefinition(Top.list[2])
    /\ Top.list[1] # Top.list[2]
    /\ nodes[Top.list[1]].sym = nodes[Top.list[2]].sym
    /\ syms[nodes[Top.list[2]].sym].kind = "FunctionDeclaration"
    /\ syms[nodes[Top.list[2]].sym].definition = Top.list[2]

\* the step goes on in the call on top of the stack, or in one it makes
Passed == status' = "running" /\ Len(stack') >= Len(stack)
RegisteredSyms == Range(fSymbols)

\* what a step of a SharedFunction command does, by the claim
SharedFunctionStep ==
    /\ (At("element", "sfParam") /\ Passed) =>
          /\ Is(ret, "Variable")
          /\ Top.i < Top.n
    /\ (At("element", "sfDecl") /\ Passed) =>
          /\ Top.i = Top.n
          /\ Is(ret, "FunctionDeclaration")
          /\ ret \notin Range(tables[Root(fSymbolTable)].fOwned) => ret \in RegisteredSyms
          /\ fIP' = fIP
    /\ (At("element", "sfResult") /\ status' = "running") =>
          /\ Len(stack') = Len(stack) - 1
          /\ ret' = ret
          /\ IsDefinition(ret)

\* C20 (SharedFunction): a SharedFunction command decodes exactly N parameter
\* symbols, which are Variables, then one FunctionDeclaration symbol, registered
\* before the nested element is read, and yields exactly one element, a
\* FunctionDefinition; a nested element of another kind, or the terminator, is
\* fatal.
C20_SharedFunction == [][SharedFunctionStep]_vars

InField == status = "running" /\ Top.fn = "symbol" /\ Top.pc \in {"fieldOwner", "fieldIndex"}

\* C21 (Field symbols): decoding a Field command resolves the owner by the id
\* read, reads the field index and creates a Field owned by the current scope,
\* and no step of it changes the id table.
C21_FieldUnregistered ==
    [][/\ InField => fSymbols' = fSymbols
       /\ (At("symbol", "start") /\ status' = "running" /\ Len(stack') = Len(stack)
           /\ Top'.pc = "fieldOwner") => fSymbols' = fSymbols
       /\ (At("symbol", "fieldOwner") /\ status' = "running") =>
             /\ (fEnd' = Open \/ fIP + 2 <= fEnd') => Top'.a = Registered(U16Read)
             /\ Top'.a # Null
             /\ syms' = syms /\ tables' = tables
       /\ (At("symbol", "fieldIndex") /\ status' = "running") =>
             /\ Len(stack') = Len(stack) - 1
             /\ syms' = Append(syms, syms'[Len(syms')])
             /\ ret' = Len(syms')
             /\ syms'[ret'].kind = "Field"
             /\ syms'[ret'].owner = Top.a
             /\ fSymbolTable' = fSymbolTable
             /\ tables'[fSymbolTable].fOwned = Append(tables[fSymbolTable].fOwned, ret')
             /\ ret' \notin Range(fSymbols')]_vars
\* a Field of a registered Variable has been created: the current scope owns it
\* and no id refers to it
C21_FieldMade ==
    /\ status = "running"
    /\ fSymbolTable # Null
    /\ \E s \in Range(tables[fSymbolTable].fOwned) :
          /\ syms[s].kind = "Field"
          /\ syms[s].owner \in Range(fSymbols)
          /\ syms[syms[s].owner].kind = "Variable"
          /\ s \notin Range(fSymbols)

\* what the step that makes a constructor does, by the claim
ConstructorStep ==
    At("expression", "ctorMake") =>
        IF Top.a \in SingleArgument
        THEN /\ Len(ret) # 1 => (status' # "running" /\ nodes' = nodes)
             /\ Len(nodes') = Len(nodes) + 1 =>
                   /\ Len(ret) = 1
                   /\ nodes'[Len(nodes')].kids = ret
        ELSE Len(nodes') = Len(nodes) + 1 => nodes'[Len(nodes')].kids = ret

\* C22 (single-argument constructors): ArrayCast, CompoundCast, DiagonalMatrix,
\* MatrixResize, ScalarCast and Splat are made from an argument list of exactly
\* one element, and any other count stops the process before a constructor is
\* made; Array, Compound and Struct are made from the list whatever its count.
C22_SingleArgument == [][ConstructorStep]_vars

\* the statement() steps at which symbolTable() has returned the scope entry
ScopeEntry == {"blkScope", "forScope", "swScope"}
ScopeBearing == {"Block", "For", "Switch"}

\* what the scope entry and the making of a scope-bearing statement do, by the claim
ScopedStatementStep ==
    /\ (status = "running" /\ Top.fn = "statement" /\ Top.pc \in ScopeEntry) =>
          \* the scope entry was Void: the enclosing scope stays current
          /\ ret = Null => fSymbolTable' = Top.old /\ fSymbolTable = Top.old
          \* the scope entry was a SymbolTable: its child scope becomes current
          /\ ret # Null =>
                /\ fSymbolTable' = ret
                /\ ret # Top.old
                /\ tables[ret].fParent = Top.old
    /\ (status = "running" /\ Top.fn = "statement" /\ Top.pc \in ScopedReturn
        /\ Len(nodes') = Len(nodes) + 1) =>
          LET nd == nodes'[Len(nodes')]
          IN  /\ nd.kind \in ScopeBearing
              \* the node stores the scope that has been current since the entry
              /\ nd.sym = fSymbolTable
              /\ nd.sym = Top.old \/ tables[nd.sym].fParent = Top.old

\* C23 (scope attached to a scope-bearing statement): a Block, For or Switch node
\* stores the child scope made for it when its scope entry is a SymbolTable, and
\* the enclosing scope, which stays current, when its scope entry is Void.
C23_AttachedScope == [][ScopedStatementStep]_vars
\* a Block whose scope entry was Void is about to be made with the enclosing scope
C23_SharedScope ==
    /\ At("statement", "blkKind")
    /\ fSymbolTable = Top.old
    /\ ~tables[fSymbolTable].fBuiltin

\* the constructor has returned and the session has neither stopped nor ended
InSession ==
    /\ session > 0
    /\ status \in {"idle", "running"}
    /\ status = "running" => Top.fn # "Rehydrator"

\* C24 (current scope is never absent): from the end of construction to the end of
\* the session the current scope is a scope whose outermost ancestor is a builtin
\* table.
C24_ScopePresent ==
    InSession =>
        /\ fSymbolTable # Null
        /\ tables[Root(fSymbolTable)].fBuiltin
====
